---------------------------- MODULE Spec2Model ----------------------------
(***************************************************************************)
(* Type Refiner: the statistics aggregator, the targeting selector and the *)
(* weighted word generator of src/src/utils/utils.ts (the revision that    *)
(* starts at line 402, the one src/unnamed/part_004 imports).              *)
(*                                                                         *)
(* Conventions.  A JavaScript string is a sequence of one-character        *)
(* strings, so that it can be indexed and sliced.  A JavaScript object     *)
(* used as a map is the sequence of its entries [key, val] in insertion    *)
(* order, which is the order Object.entries walks.  A JavaScript number is *)
(* an exact rational [nan, n, d] in lowest terms, or NaN; an array index   *)
(* out of range reads Undefined.  Floating-point rounding is not           *)
(* modelled.                                                               *)
(***************************************************************************)
EXTENDS Integers, Sequences, FiniteSets, TLC

VARIABLES
    pc,               \* position of the running call
    count,            \* generateWeightedWords: the count argument
    timingHistory,    \* the TimingHistory argument / controller state
    result,           \* generateWeightedWords: the local result array
    shuffleI,         \* generateWeightedWords: the shuffle loop's i
    targets,          \* the value getTargetedPatterns returned
    words,            \* the session's target words
    wordIndex,        \* index (from 0) of the word being typed
    completedInputs,  \* what was typed for the words left behind
    currentInput,     \* what is typed of words[wordIndex]
    typeTimings,      \* the session's letter, bigram and word latencies
    wordMistypes,     \* the session's mistype count per word
    isGameComplete,   \* the session is complete
    strictMode,       \* preferences.strictMode
    startTime,        \* time of the session's first key, or Null
    lastKeyPressTime, \* time of the last key taken, or Null
    wordStartTimes,   \* per word, the time it was begun
    letterMistakes,   \* mistake count per target letter
    totalKeystrokes,  \* characters typed in the session
    totalMistakes,    \* mistakes made in the session
    performanceData,  \* the session's {wordIndex, wpm, accuracy} points
    now,              \* performance.now() at the last event, in ticks
    event,            \* the handler that ran last
    returned          \* the list a statistics function returned

\* the session as the statistics functions read it
sessionVars ==
    <<words, wordIndex, completedInputs, currentInput, typeTimings,
      wordMistypes, isGameComplete>>

\* the rest of the session controller's state
controlVars ==
    <<strictMode, startTime, lastKeyPressTime, wordStartTimes,
      letterMistakes, totalKeystrokes, totalMistakes, performanceData, now,
      event>>

vars == <<pc, count, timingHistory, result, shuffleI, targets,
          sessionVars, controlVars, returned>>

---------------------------------------------------------------------------
(* Bounds of the model. *)

\* generateWeightedWords is called with count in 0..MaxCount
MaxCount == 5
\* getTargetedPatterns is given objects of at most MaxKeys keys
MaxKeys == 6

---------------------------------------------------------------------------
(* JavaScript numbers. *)

Min(a, b) == IF a <= b THEN a ELSE b

Abs(a) == IF a < 0 THEN -a ELSE a

RECURSIVE GCD(_, _)
GCD(a, b) == IF b = 0 THEN a ELSE GCD(b, a % b)

NaN == [nan |-> TRUE, n |-> 0, d |-> 1]

\* the rational n/d (d > 0) in lowest terms
Rat(n, d) ==
    LET g == GCD(Abs(n), d)
    IN  [nan |-> FALSE, n |-> n \div g, d |-> d \div g]

Num(k) == Rat(k, 1)

LCM(a, b) == (a \div GCD(a, b)) * b

NumAdd(x, y) ==
    IF x.nan \/ y.nan THEN NaN
    ELSE LET l == LCM(x.d, y.d)
         IN  Rat(x.n * (l \div x.d) + y.n * (l \div y.d), l)

\* x * k and x / k for an integer k (k > 0 for the division)
NumTimes(x, k) == IF x.nan THEN NaN ELSE Rat(x.n * k, x.d)

NumOver(x, k) ==
    IF x.nan THEN NaN
    ELSE LET g == GCD(Abs(x.n), k)
         IN  Rat(x.n \div g, x.d * (k \div g))

\* the sign of x - y; NaN when either is NaN
NumSignDiff(x, y) ==
    IF x.nan \/ y.nan THEN NaN
    ELSE LET l == LCM(x.d, y.d)
             a == x.n * (l \div x.d)
             b == y.n * (l \div y.d)
         IN  Num(IF a > b THEN 1 ELSE IF a < b THEN -1 ELSE 0)

NumGreater(x, y) == ~x.nan /\ ~y.nan /\ NumSignDiff(x, y).n = 1

\* Math.round: to the nearest integer, halves up
MathRound(x) ==
    IF x.nan THEN NaN ELSE Num((2 * x.n + x.d) \div (2 * x.d))

\* null, for a time not yet set
Null == -1

\* a number in a boolean context
Truthy(x) == ~x.nan /\ x.n # 0

RECURSIVE SumSeq(_)
SumSeq(s) == IF s = <<>> THEN 0 ELSE Head(s) + SumSeq(Tail(s))

\* times.reduce((a, b) => a + b, 0) / times.length: 0/0 is NaN
Mean(times) ==
    IF Len(times) = 0 THEN NaN ELSE Rat(SumSeq(times), Len(times))

---------------------------------------------------------------------------
(* JavaScript objects and arrays. *)

Has(obj, k) == \E i \in 1..Len(obj) : obj[i].key = k

Get(obj, k) == obj[CHOOSE i \in 1..Len(obj) : obj[i].key = k].val

\* obj[k] || []
GetOrEmpty(obj, k) == IF Has(obj, k) THEN Get(obj, k) ELSE <<>>

\* obj[k] || 0 for a map of counts
GetOrZero(obj, k) == IF Has(obj, k) THEN Get(obj, k) ELSE 0

Keys(obj) == {obj[i].key : i \in 1..Len(obj)}

Includes(arr, x) == \E i \in 1..Len(arr) : arr[i] = x

Range(arr) == {arr[i] : i \in 1..Len(arr)}

NoDuplicates(arr) ==
    \A i, j \in 1..Len(arr) : i # j => arr[i] # arr[j]

\* arr.slice(0, k)
Slice(arr, k) == SubSeq(arr, 1, Min(k, Len(arr)))

\* a - b of two counts, as a number
NumDiff(a, b) == Num(a - b)

---------------------------------------------------------------------------
(* The comparators handed to Array.prototype.sort. *)

\* (a, b) => b.averageTime - a.averageTime
byAverageTimeDesc(a, b) == NumSignDiff(b.averageTime, a.averageTime)

\* (mutant: the mistype counts are not compared)
byTimeOnlyDesc(a, b) == NumSignDiff(b.averageTime, a.averageTime)

\* (a, b) => b.mistypes !== a.mistypes ? b.mistypes - a.mistypes
\*                                     : b.averageTime - a.averageTime
byMistypesThenTimeDesc(a, b) ==
    IF b.mistypes # a.mistypes
    THEN NumDiff(b.mistypes, a.mistypes)
    ELSE NumSignDiff(b.averageTime, a.averageTime)

\* (a, b) => b.weight - a.weight
byWeightDesc(a, b) == NumSignDiff(b.weight, a.weight)

Compare(order, a, b) ==
    CASE order = "averageTime" -> byAverageTimeDesc(a, b)
      [] order = "mistypes"    -> byMistypesThenTimeDesc(a, b)
      [] order = "weight"      -> byWeightDesc(a, b)

\* Array.prototype.sort with the comparator named order (a negative result
\* keeps a first).  A stable insertion sort: every stable sort agrees with
\* it when the comparator is consistent; a NaN from the comparator counts
\* as +0, as ECMAScript says.
InsertInto(t, x, order) ==
    LET after == {j \in 1..Len(t) :
                     LET c == Compare(order, t[j], x) IN c.nan \/ c.n <= 0}
        p == IF after = {} THEN 0
             ELSE CHOOSE j \in after : \A k \in after : k <= j
    IN  SubSeq(t, 1, p) \o <<x>> \o SubSeq(t, p + 1, Len(t))

SortBy(arr, order) ==
    LET ins[k \in 0..Len(arr)] ==
            IF k = 0 THEN <<>> ELSE InsertInto(ins[k - 1], arr[k], order)
    IN  ins[Len(arr)]

---------------------------------------------------------------------------
(* getTargetedPatterns *)

\* slice(0, 5): how many of each category are targeted
TopN == 5

\* the slowest letters (the same code finds the slowest bigrams)
SlowestKeys(historical) ==
    LET stats == [i \in 1..Len(historical) |->
                     [key |-> historical[i].key,
                      averageTime |-> Mean(historical[i].val)]]
        sorted == SortBy(stats, "averageTime")
        top == Slice(sorted, TopN)
    IN  IF Len(historical) > 0
        THEN [i \in 1..Len(top) |-> top[i].key]
        ELSE <<>>

\* the most challenging words (by mistypes, then by time)
ChallengingWords(historicalWords, mistypeCounts) ==
    LET stats == [i \in 1..Len(historicalWords) |->
                     [key |-> historicalWords[i].key,
                      averageTime |->
                          IF Len(historicalWords[i].val) > 0
                          THEN Mean(historicalWords[i].val)
                          ELSE Num(0),
                      mistypes |->
                          GetOrZero(mistypeCounts, historicalWords[i].key)]]
        sorted == SortBy(stats, "mistypes")
        top == Slice(sorted, TopN)
    IN  IF Len(historicalWords) > 0
        THEN [i \in 1..Len(top) |-> top[i].key]
        ELSE <<>>

getTargetedPatterns(h) ==
    [letters |-> SlowestKeys(h.historicalLetters),
     bigrams |-> SlowestKeys(h.historicalBigrams),
     words   |-> ChallengingWords(h.historicalWords, h.wordMistypes)]

---------------------------------------------------------------------------
(* generateWeightedWords *)

\* The practice dictionary.  src/ holds only its import; the stand-in is a
\* short list without duplicates that has a one-letter word, a word
\* repeating a bigram and two words sharing a bigram.
dictionary ==
    << <<"a", "b">>, <<"a", "a">>, <<"a", "a", "a">>, <<"b">> >>

\* timingHistory.words[word] ? (timingHistory.wordMistypes[word] || 0) : 0
CurrentMistypes(word, h) ==
    IF Has(h.words, word) /\ Truthy(Get(h.words, word))
    THEN GetOrZero(h.wordMistypes, word)
    ELSE 0

\* weight after "Increase weight based on historical performance"
WordTimeWeight(word, h) ==
    LET historicalTimes == GetOrEmpty(h.historicalWords, word)
        currentMistypes == CurrentMistypes(word, h)
        averageTime == IF Len(historicalTimes) > 0
                       THEN Mean(historicalTimes) ELSE Num(0)
        timed == IF NumGreater(averageTime, Num(0))
                 THEN NumAdd(Num(1), NumOver(averageTime, 1000))
                 ELSE Num(1)
    IN  IF currentMistypes > 0
        THEN NumTimes(timed, 1 + currentMistypes)
        ELSE timed

\* "Add weight for challenging letters": the sum over the word's characters
LetterWeight(word, h) ==
    LET add[k \in 0..Len(word)] ==
            IF k = 0 THEN Num(0)
            ELSE LET letterTimes == GetOrEmpty(h.historicalLetters, word[k])
                 IN  IF Len(letterTimes) > 0
                     THEN NumAdd(add[k - 1], NumOver(Mean(letterTimes), 2000))
                     ELSE add[k - 1]
    IN  add[Len(word)]

\* "Add weight for challenging bigrams": the sum over the adjacent pairs
BigramWeight(word, h) ==
    LET pairs == IF Len(word) > 0 THEN Len(word) - 1 ELSE 0
        add[k \in 0..pairs] ==
            IF k = 0 THEN Num(0)
            ELSE LET bigramTimes ==
                         GetOrEmpty(h.historicalBigrams, SubSeq(word, k, k + 1))
                 IN  IF Len(bigramTimes) > 0
                     THEN NumAdd(add[k - 1], NumOver(Mean(bigramTimes), 4000))
                     ELSE add[k - 1]
    IN  add[pairs]

\* (mutant: the weight of a mistyped word is not doubled)
WordWeightNotDoubled(word, h) ==
    NumAdd(NumAdd(WordTimeWeight(word, h), LetterWeight(word, h)),
           BigramWeight(word, h))

WordWeight(word, h) ==
    LET weight == NumAdd(NumAdd(WordTimeWeight(word, h), LetterWeight(word, h)),
                         BigramWeight(word, h))
    IN  IF CurrentMistypes(word, h) > 0 THEN NumTimes(weight, 2) ELSE weight

\* (mutant: the words stay in dictionary order)
UnsortedWords(h) ==
    [i \in 1..Len(dictionary) |->
        [word |-> dictionary[i], weight |-> WordWeight(dictionary[i], h)]]

\* wordWeights.sort((a, b) => b.weight - a.weight)
SortedWords(h) ==
    SortBy([i \in 1..Len(dictionary) |->
               [word |-> dictionary[i], weight |-> WordWeight(dictionary[i], h)]],
           "weight")

\* (mutant: the duplicate test is missing)
PushAlways(res, word) == Append(res, word)

\* if (!result.includes(word)) result.push(word)
PushIfNew(res, word) == IF Includes(res, word) THEN res ELSE Append(res, word)

\* (mutant: the targeted words stop at count words)
IncludeTargetedUpToCount(targetWords) ==
    LET inc[k \in 0..Len(targetWords)] ==
            IF k = 0 THEN <<>>
            ELSE IF Includes(dictionary, targetWords[k])
                     /\ Len(inc[k - 1]) < count
                 THEN PushIfNew(inc[k - 1], targetWords[k])
                 ELSE inc[k - 1]
    IN  inc[Len(targetWords)]

\* "Include targeted words first"
IncludeTargeted(targetWords) ==
    LET inc[k \in 0..Len(targetWords)] ==
            IF k = 0 THEN <<>>
            ELSE IF Includes(dictionary, targetWords[k])
                 THEN PushIfNew(inc[k - 1], targetWords[k])
                 ELSE inc[k - 1]
    IN  inc[Len(targetWords)]

\* sortedWords.find(({ word }) => !result.includes(word)): its index, 0 if none
FindNext(sorted, res) ==
    LET free == {i \in 1..Len(sorted) : ~Includes(res, sorted[i].word)}
    IN  IF free = {} THEN 0 ELSE CHOOSE i \in free : \A k \in free : i <= k

\* (mutant: result[i] = result[j] alone)
Overwrite(res, i, j) ==
    [k \in 1..Len(res) |-> IF k = i + 1 THEN res[j + 1] ELSE res[k]]

\* [result[i], result[j]] = [result[j], result[i]], 0-based i and j
Swap(res, i, j) ==
    [k \in 1..Len(res) |->
        IF k = i + 1 THEN res[j + 1]
        ELSE IF k = j + 1 THEN res[i + 1]
        ELSE res[k]]

\* !timingHistory.historicalPerformance
\*     || timingHistory.historicalPerformance.length === 0
NoHistory(h) ==
    \/ "historicalPerformance" \notin DOMAIN h
    \/ Len(h.historicalPerformance) = 0

---------------------------------------------------------------------------
(* calculateLetterStats and calculateBigramStats *)

\* Map.prototype.set: replace the value of key k, or add k last
MapSet(obj, k, v) ==
    IF Has(obj, k)
    THEN [i \in 1..Len(obj) |->
             IF obj[i].key = k THEN [key |-> k, val |-> v] ELSE obj[i]]
    ELSE Append(obj, [key |-> k, val |-> v])

\* the input of the k-th word (k from 1): what was typed for a word left
\* behind, currentInput for the word in play, '' for the words ahead (an
\* undefined completedInputs entry is as falsy as '')
InputOf(ws, wi, ci, cur, k) ==
    IF k - 1 < wi THEN (IF k <= Len(ci) THEN ci[k] ELSE <<>>)
    ELSE IF k - 1 = wi THEN cur
    ELSE <<>>

\* (mutant: the typed character is not compared with the target)
CharTyped(input, word, j) == j <= Len(input)

\* input && charIdx < input.length && input[charIdx] === char, at
\* position j (from 1) of word
CharMatches(input, word, j) == j <= Len(input) /\ input[j] = word[j]

\* letterTimings[char]?.[n] is truthy (n from 0)
HasTimingAt(timings, char, n) ==
    /\ Has(timings, char)
    /\ n < Len(Get(timings, char))
    /\ Get(timings, char)[n + 1] # 0

\* the letterStats map after the two forEach loops: per letter typed
\* correctly, the latencies taken for it
LetterTimingsTaken(ws, wi, ci, cur, letterTimings) ==
    LET perWord[k \in 0..Len(ws)] ==
            IF k = 0 THEN <<>>
            ELSE LET word == ws[k]
                     input == InputOf(ws, wi, ci, cur, k)
                     perChar[j \in 0..Len(word)] ==
                         IF j = 0 THEN perWord[k - 1]
                         ELSE LET before == perChar[j - 1]
                                  char == word[j]
                                  timings == GetOrEmpty(before, char)
                              IN  IF CharMatches(input, word, j)
                                  THEN MapSet(before, char,
                                         IF HasTimingAt(letterTimings, char,
                                                        Len(timings))
                                         THEN Append(timings,
                                                Get(letterTimings, char)
                                                    [Len(timings) + 1])
                                         ELSE timings)
                                  ELSE before
                 IN  perChar[Len(word)]
    IN  perWord[Len(ws)]

calculateLetterStats(ws, wi, ci, cur, letterTimings) ==
    LET taken == LetterTimingsTaken(ws, wi, ci, cur, letterTimings)
    IN  SortBy([i \in 1..Len(taken) |->
                   [letter |-> taken[i].key,
                    averageTime |-> IF Len(taken[i].val) > 0
                                    THEN Mean(taken[i].val) ELSE Num(0),
                    occurrences |-> Len(taken[i].val)]],
               "averageTime")

\* input[charIdx] === word[charIdx] && input[charIdx + 1] === word[charIdx + 1]
\* for the pair starting at position j (from 1)
PairMatches(input, word, j) ==
    /\ j + 1 <= Len(input)
    /\ input[j] = word[j]
    /\ input[j + 1] = word[j + 1]

\* timings[n] as a number added to a total (n from 0); undefined past the end
TimingAt(timings, n) == IF n < Len(timings) THEN Num(timings[n + 1]) ELSE NaN

\* the wordBigrams map of one word: per bigram typed correctly, the total
\* of the latencies taken and their count
WordBigrams(word, input, bigramTimings) ==
    LET pairs == IF Len(word) > 0 THEN Len(word) - 1 ELSE 0
        perPair[j \in 0..pairs] ==
            IF j = 0 THEN <<>>
            ELSE LET before == perPair[j - 1]
                     bigram == SubSeq(word, j, j + 1)
                     timings == GetOrEmpty(bigramTimings, bigram)
                     st == IF Has(before, bigram) THEN Get(before, bigram)
                           ELSE [totalTime |-> Num(0), count |-> 0]
                 IN  IF PairMatches(input, word, j) /\ Len(timings) > 0
                     THEN MapSet(before, bigram,
                            [totalTime |-> NumAdd(st.totalTime,
                                                  TimingAt(timings, st.count)),
                             count |-> st.count + 1])
                     ELSE before
    IN  perPair[pairs]

\* wordBigrams.forEach: each bigram's average in the word joins its total
AddWordAverages(bigramStats, wordBigrams) ==
    LET add[i \in 0..Len(wordBigrams)] ==
            IF i = 0 THEN bigramStats
            ELSE LET before == add[i - 1]
                     bigram == wordBigrams[i].key
                     avgTimeForWord == NumOver(wordBigrams[i].val.totalTime,
                                               wordBigrams[i].val.count)
                     st == IF Has(before, bigram) THEN Get(before, bigram)
                           ELSE [totalTime |-> Num(0), count |-> 0]
                 IN  MapSet(before, bigram,
                            [totalTime |-> NumAdd(st.totalTime, avgTimeForWord),
                             count |-> st.count + 1])
    IN  add[Len(wordBigrams)]

\* the bigramStats map after words.forEach
BigramTotals(ws, wi, ci, cur, bigramTimings) ==
    LET perWord[k \in 0..Len(ws)] ==
            IF k = 0 THEN <<>>
            ELSE LET input == InputOf(ws, wi, ci, cur, k)
                 IN  IF Len(input) < 2 THEN perWord[k - 1]
                     ELSE AddWordAverages(perWord[k - 1],
                              WordBigrams(ws[k], input, bigramTimings))
    IN  perWord[Len(ws)]

calculateBigramStats(ws, wi, ci, cur, bigramTimings) ==
    LET totals == BigramTotals(ws, wi, ci, cur, bigramTimings)
    IN  SortBy([i \in 1..Len(totals) |->
                   [bigram |-> totals[i].key,
                    averageTime |-> MathRound(NumOver(totals[i].val.totalTime,
                                                      totals[i].val.count)),
                    occurrences |-> totals[i].val.count]],
               "averageTime")

---------------------------------------------------------------------------
(* calculateWordStats and the overall statistics *)

\* (mutant: the average is not rounded)
WordStatUnrounded(word, wordTimings, mistypeCounts) ==
    LET times == GetOrEmpty(wordTimings, word)
    IN  [word |-> word,
         averageTime |-> IF Len(times) > 0 THEN Mean(times) ELSE Num(0),
         occurrences |-> Len(times),
         mistypes |-> GetOrZero(mistypeCounts, word)]

\* the entry calculateWordStats pushes for one element of words
WordStatOf(word, wordTimings, mistypeCounts) ==
    LET times == GetOrEmpty(wordTimings, word)
    IN  [word |-> word,
         averageTime |-> IF Len(times) > 0 THEN MathRound(Mean(times))
                         ELSE Num(0),
         occurrences |-> Len(times),
         mistypes |-> GetOrZero(mistypeCounts, word)]

calculateWordStats(ws, wordTimings, mistypeCounts) ==
    SortBy([i \in 1..Len(ws) |-> WordStatOf(ws[i], wordTimings, mistypeCounts)],
           "mistypes")

\* index of the first entry of stats for word, 0 when there is none
\* (stats.find)
FindWord(stats, word) ==
    IF \E i \in 1..Len(stats) : stats[i].word = word
    THEN CHOOSE i \in 1..Len(stats) :
             /\ stats[i].word = word
             /\ \A j \in 1..(i - 1) : stats[j].word # word
    ELSE 0

\* one step of Object.entries(historicalWords).forEach: the entry of a
\* word of the session is changed in place, another word is pushed
MergeHistoricalWord(stats, word, times, wordTimings, h) ==
    LET i == FindWord(stats, word)
        existingStats == stats[i]
        allTimes == IF NumGreater(existingStats.averageTime, Num(0))
                    THEN times \o GetOrEmpty(wordTimings, word)
                    ELSE times
    IN  IF i # 0
        THEN [stats EXCEPT ![i] =
                 [word |-> word,
                  averageTime |-> IF Len(allTimes) > 0
                                  THEN MathRound(Mean(allTimes)) ELSE Num(0),
                  occurrences |-> existingStats.occurrences + Len(times),
                  mistypes |-> existingStats.mistypes
                                   + GetOrZero(h.wordMistypes, word)]]
        ELSE Append(stats,
                 [word |-> word,
                  averageTime |-> IF Len(times) > 0
                                  THEN MathRound(Mean(times)) ELSE Num(0),
                  occurrences |-> Len(times),
                  mistypes |-> GetOrZero(h.wordMistypes, word)])

calculateOverallWordStats(ws, wordTimings, mistypeCounts, h, complete) ==
    LET wordStats == calculateWordStats(ws, wordTimings, mistypeCounts)
        merged[k \in 0..Len(h.historicalWords)] ==
            IF k = 0 THEN wordStats
            ELSE MergeHistoricalWord(merged[k - 1],
                                     h.historicalWords[k].key,
                                     h.historicalWords[k].val,
                                     wordTimings, h)
    IN  IF ~complete THEN wordStats
        ELSE SortBy(merged[Len(h.historicalWords)], "mistypes")

\* index of the first entry of letterStats for letter, 0 when none
FindLetter(letterStats, letter) ==
    IF \E i \in 1..Len(letterStats) : letterStats[i].letter = letter
    THEN CHOOSE i \in 1..Len(letterStats) :
             /\ letterStats[i].letter = letter
             /\ \A j \in 1..(i - 1) : letterStats[j].letter # letter
    ELSE 0

\* Object.entries(historicalLetters).forEach: a letter with timings gets
\* their mean and count, one without gets its session entry if it has one
HistoricalLetterStats(historicalLetters, letterStats) ==
    LET rec[k \in 0..Len(historicalLetters)] ==
            IF k = 0 THEN <<>>
            ELSE LET letter == historicalLetters[k].key
                     times == historicalLetters[k].val
                     i == FindLetter(letterStats, letter)
                 IN  IF Len(times) > 0
                     THEN Append(rec[k - 1],
                              [letter |-> letter,
                               averageTime |-> Mean(times),
                               occurrences |-> Len(times)])
                     ELSE IF i # 0 THEN Append(rec[k - 1], letterStats[i])
                     ELSE rec[k - 1]
    IN  rec[Len(historicalLetters)]

\* (mutant: every session entry is pushed)
AddAllSessionLetters(stats, letterStats) == stats \o letterStats

\* letterStats.forEach: an entry whose letter stats lacks is pushed
AddSessionLetters(stats, letterStats) ==
    LET rec[k \in 0..Len(letterStats)] ==
            IF k = 0 THEN stats
            ELSE IF FindLetter(rec[k - 1], letterStats[k].letter) = 0
                 THEN Append(rec[k - 1], letterStats[k])
                 ELSE rec[k - 1]
    IN  rec[Len(letterStats)]

calculateOverallLetterStats(ws, wi, ci, cur, letterTimings, h) ==
    LET letterStats == calculateLetterStats(ws, wi, ci, cur, letterTimings)
    IN  SortBy(AddSessionLetters(
                   HistoricalLetterStats(h.historicalLetters, letterStats),
                   letterStats),
               "averageTime")

\* index of the first entry of bigramStats for bigram, 0 when none
FindBigram(bigramStats, bigram) ==
    IF \E i \in 1..Len(bigramStats) : bigramStats[i].bigram = bigram
    THEN CHOOSE i \in 1..Len(bigramStats) :
             /\ bigramStats[i].bigram = bigram
             /\ \A j \in 1..(i - 1) : bigramStats[j].bigram # bigram
    ELSE 0

\* Object.entries(historicalBigrams).forEach, as for letters but with the
\* mean rounded
HistoricalBigramStats(historicalBigrams, bigramStats) ==
    LET rec[k \in 0..Len(historicalBigrams)] ==
            IF k = 0 THEN <<>>
            ELSE LET bigram == historicalBigrams[k].key
                     times == historicalBigrams[k].val
                     i == FindBigram(bigramStats, bigram)
                 IN  IF Len(times) > 0
                     THEN Append(rec[k - 1],
                              [bigram |-> bigram,
                               averageTime |-> MathRound(Mean(times)),
                               occurrences |-> Len(times)])
                     ELSE IF i # 0 THEN Append(rec[k - 1], bigramStats[i])
                     ELSE rec[k - 1]
    IN  rec[Len(historicalBigrams)]

\* bigramStats.forEach: an entry whose bigram stats lacks is pushed
AddSessionBigrams(stats, bigramStats) ==
    LET rec[k \in 0..Len(bigramStats)] ==
            IF k = 0 THEN stats
            ELSE IF FindBigram(rec[k - 1], bigramStats[k].bigram) = 0
                 THEN Append(rec[k - 1], bigramStats[k])
                 ELSE rec[k - 1]
    IN  rec[Len(bigramStats)]

\* the session's statistics are computed on the history's bigram timings;
\* the letterTimings argument is not read
calculateOverallBigramStats(ws, wi, ci, cur, letterTimings, h) ==
    LET bigramStats ==
            calculateBigramStats(ws, wi, ci, cur, h.historicalBigrams)
    IN  SortBy(AddSessionBigrams(
                   HistoricalBigramStats(h.historicalBigrams, bigramStats),
                   bigramStats),
               "averageTime")

---------------------------------------------------------------------------
(* The session controller (TypingGame): what a key does to the session. *)

\* performance.now() at tick k, in milliseconds: tick k comes 100 * k ms
\* after tick k - 1
Time(k) == 50 * k * (k + 1)

\* obj[k] = (obj[k] || 0) + by
Increased(obj, k, by) == MapSet(obj, k, GetOrZero(obj, k) + by)

\* obj[k] = [...(obj[k] || []), t]
Pushed(obj, k, t) == MapSet(obj, k, Append(GetOrEmpty(obj, k), t))

\* letterMistakes after one more mistake for each character of word past
\* the first typed characters
RemainingMistakes(mistakes, word, typed) ==
    LET rec[j \in typed..Len(word)] ==
            IF j = typed THEN mistakes
            ELSE Increased(rec[j - 1], word[j], 1)
    IN  rec[Len(word)]

\* Math.round(totalTime / currentWord.length)
NormalizedTime(totalTime, word) == MathRound(Rat(totalTime, Len(word))).n

\* updatePerformanceData, with the state of the render the handler closed
\* over: the point of the word in play is replaced or added
updatePerformanceData(prev, overrideInput, currentTime) ==
    LET inputAt(k) == IF k - 1 < wordIndex
                      THEN (IF k <= Len(completedInputs)
                            THEN completedInputs[k] ELSE <<>>)
                      ELSE overrideInput
        correctIn(k) ==
            Cardinality({j \in 1..Len(words[k]) :
                            j <= Len(inputAt(k))
                            /\ inputAt(k)[j] = words[k][j]})
        tally[k \in 0..(wordIndex + 1)] ==
            IF k = 0 THEN [correct |-> 0, possible |-> 0]
            ELSE LET sep == IF k - 1 < wordIndex THEN 1 ELSE 0
                 IN  [correct |-> tally[k - 1].correct + correctIn(k) + sep,
                      possible |-> tally[k - 1].possible + Len(words[k])
                                       + sep]
        total == tally[wordIndex + 1]
        elapsed == currentTime - startTime
        newPoint ==
            [wordIndex |-> wordIndex,
             wpm |-> IF elapsed > 0
                     THEN NumOver(MathRound(Rat(total.correct * 1200000,
                                                elapsed)), 100)
                     ELSE Num(0),
             accuracy |-> IF total.possible > 0
                          THEN MathRound(Rat(total.correct * 100,
                                             total.possible)).n
                          ELSE 100]
    IN  IF startTime = Null THEN prev
        ELSE IF Len(prev) > 0 /\ prev[Len(prev)].wordIndex = wordIndex
        THEN Append(SubSeq(prev, 1, Len(prev) - 1), newPoint)
        ELSE Append(prev, newPoint)

\* newLetterTimings[e.key] = [...timings, charTimeDiff], whatever the
\* character expected
KeyTimings(timings, key, expected, diff) == Pushed(timings, key, diff)

\* (mutant: strict mode lets every input pass)
StrictAccepts(strict, input, word) == FALSE

\* preferences.strictMode && currentInput !== currentWord
StrictRejects(strict, input, word) == strict /\ input # word

\* (mutant: a word never counts as filled)
NeverFull(input, word) == FALSE

\* currentInput.length >= currentWord.length
WordFull(input, word) == Len(input) >= Len(word)

\* the space branch of handleKeyPress: what the setters are called with,
\* or accepted = FALSE when the handler returns before them
SpaceKey(currentWord, currentTime, newStartTime, started) ==
    LET remaining == Len(currentWord) - Len(currentInput)
        last == wordIndex = Len(words) - 1
    IN  IF Len(currentInput) = 0 THEN [accepted |-> FALSE]
        ELSE IF StrictRejects(strictMode, currentInput, currentWord)
        THEN [accepted |-> FALSE]
        ELSE [accepted |-> TRUE,
              startTime |-> newStartTime,
              typeTimings |->
                  [typeTimings EXCEPT !.words =
                      Pushed(typeTimings.words, currentWord,
                             NormalizedTime(currentTime
                                                - Get(started, currentWord),
                                            currentWord))],
              letterMistakes |->
                  RemainingMistakes(letterMistakes, currentWord,
                                    Len(currentInput)),
              totalMistakes |-> totalMistakes + remaining,
              totalKeystrokes |-> totalKeystrokes,
              lastKeyPressTime |-> currentTime,
              completedInputs |-> Append(completedInputs, currentInput),
              wordIndex |-> IF last THEN wordIndex ELSE wordIndex + 1,
              currentInput |-> IF last THEN currentInput ELSE <<>>,
              isGameComplete |-> last,
              wordStartTimes |->
                  IF last THEN started
                  ELSE MapSet(started, words[wordIndex + 2], currentTime),
              wordMistypes |-> IF remaining > 0
                               THEN Increased(wordMistypes, currentWord,
                                              remaining)
                               ELSE wordMistypes,
              performanceData |->
                  updatePerformanceData(performanceData, currentInput,
                                        currentTime)]

\* the printable-character branch of handleKeyPress
CharKey(key, currentWord, currentTime, newStartTime, started) ==
    LET timed == lastKeyPressTime # Null /\ lastKeyPressTime # 0
        charTimeDiff == currentTime - lastKeyPressTime
        expectedChar == currentWord[Len(currentInput) + 1]
        newCurrentInput == Append(currentInput, key)
        mistyped == /\ Len(currentInput) < Len(currentWord)
                    /\ expectedChar # key
        done == /\ wordIndex = Len(words) - 1
                /\ Len(newCurrentInput) >= Len(currentWord)
    IN  IF WordFull(currentInput, currentWord) THEN [accepted |-> FALSE]
        ELSE [accepted |-> TRUE,
              startTime |-> newStartTime,
              typeTimings |->
                  [letters |->
                       IF timed
                       THEN KeyTimings(typeTimings.letters, key,
                                       expectedChar, charTimeDiff)
                       ELSE typeTimings.letters,
                   bigrams |->
                       IF timed /\ Len(currentInput) > 0
                       THEN Pushed(typeTimings.bigrams,
                                   <<currentInput[Len(currentInput)], key>>,
                                   charTimeDiff)
                       ELSE typeTimings.bigrams,
                   words |->
                       IF done
                       THEN Pushed(typeTimings.words, currentWord,
                                   NormalizedTime(
                                       currentTime
                                           - Get(started, currentWord),
                                       currentWord))
                       ELSE typeTimings.words],
              letterMistakes |-> IF mistyped
                                 THEN Increased(letterMistakes,
                                                expectedChar, 1)
                                 ELSE letterMistakes,
              totalMistakes |-> totalMistakes + (IF mistyped THEN 1 ELSE 0),
              totalKeystrokes |-> totalKeystrokes + 1,
              lastKeyPressTime |-> currentTime,
              completedInputs |-> IF done
                                  THEN Append(completedInputs,
                                              newCurrentInput)
                                  ELSE completedInputs,
              wordIndex |-> wordIndex,
              currentInput |-> newCurrentInput,
              isGameComplete |-> done,
              wordStartTimes |-> started,
              wordMistypes |-> IF mistyped
                               THEN Increased(wordMistypes, currentWord, 1)
                               ELSE wordMistypes,
              performanceData |->
                  updatePerformanceData(performanceData, newCurrentInput,
                                        currentTime)]

\* handleKeyPress for a printable character or a space
handleKeyPress(key) ==
    IF ~(wordIndex < Len(words)) THEN [accepted |-> FALSE]
    ELSE LET currentWord == words[wordIndex + 1]
             currentTime == Time(now + 1)
             newStartTime == IF startTime = Null \/ startTime = 0
                             THEN currentTime ELSE startTime
             started == IF Has(wordStartTimes, currentWord)
                        THEN wordStartTimes
                        ELSE MapSet(wordStartTimes, currentWord, currentTime)
         IN  IF key = " "
             THEN SpaceKey(currentWord, currentTime, newStartTime, started)
             ELSE CharKey(key, currentWord, currentTime, newStartTime,
                          started)

\* handleGlobalKeyPress: the listener passes the key on while the session
\* is not complete
handleGlobalKeyPress(key) ==
    IF isGameComplete THEN [accepted |-> FALSE] ELSE handleKeyPress(key)

---------------------------------------------------------------------------
(* The session controller: the merge of a complete session into the       *)
(* history (the effect on isGameComplete).                                 *)

\* (mutant: the batch replaces what the history held)
ReplaceBatch(old, batch) == batch

\* [...old, ...batch], old.push(...batch)
AppendBatch(old, batch) == old \o batch

\* words.forEach of the merge: the session's average per word, its word
\* times added to historicalWords, its mistypes to the history's
MergeWords(h, ws, wordTimings, mistypeCounts) ==
    LET rec[k \in 0..Len(ws)] ==
            IF k = 0
            THEN [words |-> <<>>, historicalWords |-> h.historicalWords,
                  wordMistypes |-> h.wordMistypes]
            ELSE LET before == rec[k - 1]
                     word == ws[k]
                     times == GetOrEmpty(wordTimings, word)
                     timed ==
                         IF Len(times) > 0
                         THEN [before EXCEPT
                                  !.words = MapSet(before.words, word,
                                                   MathRound(Mean(times))),
                                  !.historicalWords =
                                      MapSet(before.historicalWords, word,
                                          AppendBatch(
                                              GetOrEmpty(
                                                  before.historicalWords,
                                                  word),
                                              times))]
                         ELSE before
                 IN  IF GetOrZero(mistypeCounts, word) # 0
                     THEN [timed EXCEPT
                              !.wordMistypes =
                                  Increased(timed.wordMistypes, word,
                                            GetOrZero(mistypeCounts, word))]
                     ELSE timed
    IN  rec[Len(ws)]

\* the currentTimings of a letter: for each position where the letter was
\* typed correctly, the next of its latencies, when there is one
LetterBatch(letter, ws, ci, letterTimings) ==
    LET perWord[k \in 0..Len(ws)] ==
            IF k = 0 THEN <<>>
            ELSE LET word == ws[k]
                     input == IF k <= Len(ci) THEN ci[k] ELSE <<>>
                     perChar[j \in 0..Len(word)] ==
                         IF j = 0 THEN perWord[k - 1]
                         ELSE IF /\ word[j] = letter
                                 /\ j <= Len(input)
                                 /\ input[j] = word[j]
                                 /\ HasTimingAt(letterTimings, letter,
                                                Len(perChar[j - 1]))
                              THEN Append(perChar[j - 1],
                                       Get(letterTimings, letter)
                                           [Len(perChar[j - 1]) + 1])
                              ELSE perChar[j - 1]
                 IN  perChar[Len(word)]
    IN  perWord[Len(ws)]

\* letterStats.forEach of the merge
MergeLetters(h, letterStats, ws, ci, letterTimings) ==
    LET rec[k \in 0..Len(letterStats)] ==
            IF k = 0
            THEN [letters |-> <<>>,
                  historicalLetters |-> h.historicalLetters]
            ELSE LET before == rec[k - 1]
                     letter == letterStats[k].letter
                 IN  [letters |-> MapSet(before.letters, letter,
                                         letterStats[k].averageTime),
                      historicalLetters |->
                          MapSet(before.historicalLetters, letter,
                              AppendBatch(
                                  GetOrEmpty(before.historicalLetters,
                                             letter),
                                  LetterBatch(letter, ws, ci,
                                              letterTimings)))]
    IN  rec[Len(letterStats)]

\* the currentTimings of a bigram: all its latencies, once for each place
\* where it was typed correctly
BigramBatch(bigram, ws, ci, bigramTimings) ==
    LET perWord[k \in 0..Len(ws)] ==
            IF k = 0 THEN <<>>
            ELSE LET word == ws[k]
                     input == IF k <= Len(ci) THEN ci[k] ELSE <<>>
                     pairs == IF Len(word) > 0 THEN Len(word) - 1 ELSE 0
                     perPair[j \in 0..pairs] ==
                         IF j = 0 THEN perWord[k - 1]
                         ELSE IF /\ SubSeq(word, j, j + 1) = bigram
                                 /\ PairMatches(input, word, j)
                              THEN perPair[j - 1]
                                       \o GetOrEmpty(bigramTimings, bigram)
                              ELSE perPair[j - 1]
                 IN  perPair[pairs]
    IN  perWord[Len(ws)]

\* bigramStats.forEach of the merge
MergeBigrams(h, bigramStats, ws, ci, bigramTimings) ==
    LET rec[k \in 0..Len(bigramStats)] ==
            IF k = 0
            THEN [bigrams |-> <<>>,
                  historicalBigrams |-> h.historicalBigrams]
            ELSE LET before == rec[k - 1]
                     bigram == bigramStats[k].bigram
                 IN  [bigrams |-> MapSet(before.bigrams, bigram,
                                         bigramStats[k].averageTime),
                      historicalBigrams |->
                          MapSet(before.historicalBigrams, bigram,
                              AppendBatch(
                                  GetOrEmpty(before.historicalBigrams,
                                             bigram),
                                  BigramBatch(bigram, ws, ci,
                                              bigramTimings)))]
    IN  rec[Len(bigramStats)]

\* typeTimings.letters where calculateBigramStats reads its bigramTimings
\* (the call passes it as the fifth argument and typeTimings.bigrams as a
\* sixth that the function does not take): its keys are single
\* characters, so it has no timing for any bigram
LettersAsBigramTimings(letterTimings) == <<>>

\* (mutant: every point of the session is appended)
AppendEveryPoint(historicalPerformance, perf) ==
    historicalPerformance
        \o [i \in 1..Len(perf) |->
               [wpm |-> perf[i].wpm, accuracy |-> perf[i].accuracy]]

\* [...historicalPerformance, {wpm, accuracy} of the last point]
AppendPerformance(historicalPerformance, perf) ==
    Append(historicalPerformance,
           [wpm |-> perf[Len(perf)].wpm,
            accuracy |-> perf[Len(perf)].accuracy])

\* the history the effect sets when the session is complete
MergedHistory(h, ws, wi, ci, cur, timings, mistypeCounts, perf) ==
    LET letterStats == calculateLetterStats(ws, wi, ci, cur, timings.letters)
        bigramStats ==
            calculateBigramStats(ws, wi, ci, cur,
                                 LettersAsBigramTimings(timings.letters))
        w == MergeWords(h, ws, timings.words, mistypeCounts)
        l == MergeLetters(h, letterStats, ws, ci, timings.letters)
        b == MergeBigrams(h, bigramStats, ws, ci, timings.bigrams)
    IN  [letters |-> l.letters,
         bigrams |-> b.bigrams,
         words |-> w.words,
         historicalLetters |-> l.historicalLetters,
         historicalBigrams |-> b.historicalBigrams,
         historicalWords |-> w.historicalWords,
         historicalPerformance |->
             AppendPerformance(h.historicalPerformance, perf),
         wordMistypes |-> w.wordMistypes]

---------------------------------------------------------------------------
(* The inputs the calls are checked on. *)

\* the object holding, in the order of keys, key k with value vals[c[k]]
\* for every k with c[k] # 0
MakeObj(keys, c, vals) ==
    LET build[k \in 0..Len(keys)] ==
            IF k = 0 THEN <<>>
            ELSE IF c[k] # 0
                 THEN Append(build[k - 1],
                             [key |-> keys[k], val |-> vals[c[k]]])
                 ELSE build[k - 1]
    IN  build[Len(keys)]

\* every object over a subset of keys with values among vals
Objects(keys, vals) ==
    {MakeObj(keys, c, vals) : c \in [1..Len(keys) -> 0..Len(vals)]}

EmptyHistory ==
    [letters |-> <<>>, bigrams |-> <<>>, words |-> <<>>,
     historicalLetters |-> <<>>, historicalBigrams |-> <<>>,
     historicalWords |-> <<>>, historicalPerformance |-> <<>>,
     wordMistypes |-> <<>>]

\* "Ensure all timing history properties exist": a property the object
\* lacks is read as {} or []
safeTimingHistory(h) ==
    [f \in DOMAIN EmptyHistory |->
        IF f \in DOMAIN h THEN h[f] ELSE EmptyHistory[f]]

OneSession == <<[wpm |-> 40, accuracy |-> 90]>>

NoTargets == [letters |-> <<>>, bigrams |-> <<>>, words |-> <<>>]

NoTimings == [letters |-> <<>>, bigrams |-> <<>>, words |-> <<>>]

\* the controller's state before the first key of a session
NoKeys ==
    /\ strictMode = TRUE
    /\ startTime = Null
    /\ lastKeyPressTime = Null
    /\ wordStartTimes = <<>>
    /\ letterMistakes = <<>>
    /\ totalKeystrokes = 0
    /\ totalMistakes = 0
    /\ performanceData = <<>>
    /\ now = 0
    /\ event = "mount"

\* no session in play (the calls that read none)
NoSession ==
    /\ words = <<>>
    /\ wordIndex = 0
    /\ completedInputs = <<>>
    /\ currentInput = <<>>
    /\ typeTimings = NoTimings
    /\ wordMistypes = <<>>
    /\ isGameComplete = FALSE
    /\ NoKeys
    /\ returned = <<>>

\* histories generateWeightedWords is called with: none, or one of a
\* completed session over two dictionary words and a word that is not in
\* the dictionary, with and without mistypes, letter and bigram timings
PatternTimings ==
    {[letters |-> <<>>, bigrams |-> <<>>],
     [letters |-> <<[key |-> "a", val |-> <<600>>]>>,
      bigrams |-> <<[key |-> <<"a", "a">>, val |-> <<400>>]>>]}

GenHistories ==
    {EmptyHistory,
     [EmptyHistory EXCEPT !.historicalWords =
                              <<[key |-> <<"a", "b">>, val |-> <<200>>]>>]}
    \cup
    {[letters |-> <<>>, bigrams |-> <<>>, words |-> ws,
      historicalLetters |-> pt.letters, historicalBigrams |-> pt.bigrams,
      historicalWords |-> hw, historicalPerformance |-> OneSession,
      wordMistypes |-> wm] :
        hw \in Objects(<< <<"b">>, <<"a", "b">>, <<"c">> >>,
                       << <<200>>, <<200, 600>> >>),
        wm \in Objects(<< <<"a", "b">> >>, <<2>>),
        ws \in Objects(<< <<"a", "b">> >>, <<Num(200)>>),
        pt \in PatternTimings}

---------------------------------------------------------------------------
(* generateWeightedWords, one loop iteration a step; Math.random is the    *)
(* choice of r and j.                                                      *)

InitGen ==
    /\ pc = "call"
    /\ count \in 0..MaxCount
    /\ timingHistory \in GenHistories
    /\ result = <<>>
    /\ shuffleI = 0
    /\ targets = NoTargets
    /\ NoSession

\* entry: the first-time-user test, or the targeted words
GenEnter ==
    /\ pc = "call"
    /\ IF NoHistory(timingHistory)
       THEN /\ pc' = "firstLoop"
            /\ result' = <<>>
            /\ targets' = targets
       ELSE /\ pc' = "fillLoop"
            /\ targets' = getTargetedPatterns(safeTimingHistory(timingHistory))
            /\ result' = IncludeTargeted(targets'.words)
    /\ UNCHANGED <<count, timingHistory, shuffleI, sessionVars, controlVars, returned>>

\* first-time user: while (result.length < count) draw a random word
GenFirstDraw ==
    /\ pc = "firstLoop"
    /\ Len(result) < count
    /\ \E r \in 1..Len(dictionary) : result' = PushIfNew(result, dictionary[r])
    /\ UNCHANGED <<pc, count, timingHistory, shuffleI, targets, sessionVars, controlVars, returned>>

GenFirstReturn ==
    /\ pc = "firstLoop"
    /\ ~(Len(result) < count)
    /\ pc' = "done"
    /\ UNCHANGED <<count, timingHistory, result, shuffleI, targets, sessionVars, controlVars, returned>>

\* (mutant: every remaining slot is filled by a random draw)
GenFillRandom ==
    /\ pc = "fillLoop"
    /\ Len(result) < count
    /\ \E r \in 1..Len(dictionary) :
           result' = PushIfNew(result, dictionary[r])
    /\ UNCHANGED <<pc, count, timingHistory, shuffleI, targets, sessionVars, controlVars, returned>>

\* "Fill remaining slots with weighted words"
GenFill ==
    /\ pc = "fillLoop"
    /\ Len(result) < count
    /\ LET sorted == SortedWords(safeTimingHistory(timingHistory))
           next == FindNext(sorted, result)
       IN  IF next # 0
           THEN result' = Append(result, sorted[next].word)
           ELSE \E r \in 1..Len(dictionary) :
                    result' = PushIfNew(result, dictionary[r])
    /\ UNCHANGED <<pc, count, timingHistory, shuffleI, targets, sessionVars, controlVars, returned>>

GenFillExit ==
    /\ pc = "fillLoop"
    /\ ~(Len(result) < count)
    /\ pc' = "shuffle"
    /\ shuffleI' = Len(result) - 1
    /\ UNCHANGED <<count, timingHistory, result, targets, sessionVars, controlVars, returned>>

\* "Shuffle the final list": for (i = length - 1; i > 0; i--) swap with j <= i
GenShuffle ==
    /\ pc = "shuffle"
    /\ shuffleI > 0
    /\ \E j \in 0..shuffleI : result' = Swap(result, shuffleI, j)
    /\ shuffleI' = shuffleI - 1
    /\ UNCHANGED <<pc, count, timingHistory, targets, sessionVars, controlVars, returned>>

GenReturn ==
    /\ pc = "shuffle"
    /\ ~(shuffleI > 0)
    /\ pc' = "done"
    /\ UNCHANGED <<count, timingHistory, result, shuffleI, targets, sessionVars, controlVars, returned>>

NextGen ==
    \/ GenEnter
    \/ GenFirstDraw
    \/ GenFirstReturn
    \/ GenFill
    \/ GenFillExit
    \/ GenShuffle
    \/ GenReturn

SpecGen == InitGen /\ [][NextGen]_vars

---------------------------------------------------------------------------
(* getTargetedPatterns applied to a history. *)

LetterPool == <<"a", "b", "c", "d", "e", "f", "g", "h">>

WordPool ==
    << <<"a", "b">>, <<"a", "a">>, <<"a", "a", "a">>, <<"b">>,
       <<"c">>, <<"c", "a">>, <<"a", "c">>, <<"c", "b">> >>

BigramPool == << <<"a", "b">>, <<"b", "a">>, <<"a", "a">> >>

LetterOptions == << <<>>, <<200>>, <<200, 600>> >>

\* what a word of the history holds: its times, and its mistype count
\* (has: whether wordMistypes has the key at all)
WordOptions ==
    << [times |-> <<200>>,      has |-> FALSE, mistypes |-> 0],
       [times |-> <<600>>,      has |-> TRUE,  mistypes |-> 0],
       [times |-> <<200>>,      has |-> TRUE,  mistypes |-> 2],
       [times |-> <<200, 600>>, has |-> TRUE,  mistypes |-> 1] >>

\* the history whose k-th key holds WordOptions[c[k]]
WordHistory(keys, c) ==
    LET opt(k) == WordOptions[c[k]]
        timed == [k \in 1..Len(keys) |-> c[k]]
        counted == [k \in 1..Len(keys) |->
                       IF c[k] # 0 /\ opt(k).has THEN c[k] ELSE 0]
    IN  [EmptyHistory EXCEPT
            !.historicalWords =
                MakeObj(keys, timed,
                        [i \in 1..Len(WordOptions) |-> WordOptions[i].times]),
            !.wordMistypes =
                MakeObj(keys, counted,
                        [i \in 1..Len(WordOptions) |-> WordOptions[i].mistypes])]

\* The histories getTargetedPatterns is applied to: the first n pool keys,
\* n <= MaxKeys, each with one of the values (the call reads the keys'
\* order and values; which strings they are matters only to tell them
\* apart).
InitTargets ==
    /\ pc = "call"
    /\ \/ \E n \in 0..MaxKeys : \E c \in [1..n -> 1..Len(LetterOptions)] :
              timingHistory =
                  [EmptyHistory EXCEPT
                      !.historicalLetters =
                          MakeObj(SubSeq(LetterPool, 1, n), c, LetterOptions)]
       \/ \E hb \in Objects(BigramPool, << <<>>, <<400>>, <<600>> >>) :
              \E hl \in Objects(<<"b", "a">>, << <<600>> >>) :
                  timingHistory =
                      [EmptyHistory EXCEPT !.historicalBigrams = hb,
                                           !.historicalLetters = hl]
       \/ \E n \in 0..MaxKeys : \E c \in [1..n -> 1..Len(WordOptions)] :
              timingHistory = WordHistory(SubSeq(WordPool, 1, n), c)
    /\ targets = NoTargets
    /\ count = 0
    /\ result = <<>>
    /\ shuffleI = 0
    /\ NoSession

TargetsReturn ==
    /\ pc = "call"
    /\ targets' = getTargetedPatterns(timingHistory)
    /\ pc' = "done"
    /\ UNCHANGED <<count, timingHistory, result, shuffleI, sessionVars, controlVars, returned>>

NextTargets == TargetsReturn

SpecTargets == InitTargets /\ [][NextTargets]_vars

---------------------------------------------------------------------------
(* Calls of calculateLetterStats and calculateBigramStats on a session. *)

\* words in a session
MaxWords == 2

\* latencies recorded per key
MaxTimings == 3

Alphabet == {"a", "b"}

\* what can be typed for one word: the handler takes no character past the
\* word's length
TypedFor(word) ==
    UNION {[1..n -> Alphabet] : n \in 0..Len(word)}

TypedInputs == UNION {TypedFor(dictionary[i]) : i \in 1..Len(dictionary)}

\* the first n of the latencies recorded for a key, none of them 0
LatencyPool == <<600, 1200, 300, 900, 1500, 2100>>
LettersTimed == <<"a", "b">>
BigramsTimed == << <<"a", "a">>, <<"a", "b">> >>

\* a timing map: key i holds the n[i] latencies of the pool that start at
\* the i-th, and is absent when n[i] = 0
TimingMap(keys, n) ==
    LET all == [i \in 1..Len(keys) |->
                   [key |-> keys[i],
                    val |-> SubSeq(LatencyPool, i, i + n[i] - 1)]]
        rec[i \in 0..Len(keys)] ==
            IF i = 0 THEN <<>>
            ELSE IF n[i] = 0 THEN rec[i - 1]
            ELSE Append(rec[i - 1], all[i])
    IN  rec[Len(keys)]

\* the inputs typed so far, one per word begun
InputsTyped ==
    IF Len(completedInputs) = Len(words) THEN completedInputs
    ELSE Append(completedInputs, currentInput)

\* how many characters c the session's inputs hold
TimesTyped(c) ==
    LET rec[k \in 0..Len(InputsTyped)] ==
            IF k = 0 THEN 0
            ELSE rec[k - 1]
                 + Cardinality({j \in 1..Len(InputsTyped[k]) :
                                    InputsTyped[k][j] = c})
    IN  rec[Len(InputsTyped)]

\* every character typed has its latency recorded, but the first keystroke
\* of the session, which has no keystroke before it
RecordedBySession(letterTimings) ==
    LET missing(c) == IF TimesTyped(c) > Len(GetOrEmpty(letterTimings, c))
                      THEN TimesTyped(c) - Len(GetOrEmpty(letterTimings, c))
                      ELSE 0
    IN  missing("a") + missing("b") <= 1

InitStats ==
    /\ pc = "session"
    /\ count = 0
    /\ timingHistory = EmptyHistory
    /\ result = <<>>
    /\ shuffleI = 0
    /\ targets = NoTargets
    /\ typeTimings = NoTimings
    /\ wordMistypes = <<>>
    /\ NoKeys
    /\ returned = <<>>
    /\ \E n \in 0..MaxWords : \E idx \in [1..n -> 1..Len(dictionary)] :
         /\ \A i, j \in 1..n : idx[i] = idx[j] => i = j
         /\ words = [k \in 1..n |-> dictionary[idx[k]]]
         /\ IF n = 0
            THEN /\ wordIndex = 0
                 /\ completedInputs = <<>>
                 /\ currentInput = <<>>
            ELSE \E wi \in 0..(n - 1) :
                 \E typed \in [1..(wi + 1) -> TypedInputs] :
                 \E complete \in BOOLEAN :
                   /\ \A k \in 1..(wi + 1) :
                          Len(typed[k]) <= Len(dictionary[idx[k]])
                   /\ \A k \in 1..wi : Len(typed[k]) > 0
                   /\ complete => wi = n - 1 /\ Len(typed[n]) > 0
                   /\ (~complete /\ wi = n - 1)
                          => Len(typed[n]) < Len(dictionary[idx[n]])
                   /\ wordIndex = wi
                   /\ completedInputs = IF complete THEN typed
                                        ELSE SubSeq(typed, 1, wi)
                   /\ currentInput = typed[wi + 1]
    /\ isGameComplete = (words # <<>> /\ Len(completedInputs) = Len(words))

\* the session controller's call, on the session's own letter timings
CalcLetterStats ==
    /\ pc = "session"
    /\ \E n \in [1..Len(LettersTimed) -> 0..MaxTimings] :
         LET letterTimings == TimingMap(LettersTimed, n)
         IN  /\ RecordedBySession(letterTimings)
             /\ typeTimings' = [typeTimings EXCEPT !.letters = letterTimings]
             /\ returned' = calculateLetterStats(words, wordIndex,
                               completedInputs, currentInput, letterTimings)
    /\ pc' = "letterStats"
    /\ UNCHANGED <<count, timingHistory, result, shuffleI, targets, words,
                   wordIndex, completedInputs, currentInput, wordMistypes,
                   isGameComplete, controlVars>>

\* a call with the session's bigram timings, or with the history's as the
\* overall statistics pass them
CalcBigramStats ==
    /\ pc = "session"
    /\ \E n \in [1..Len(BigramsTimed) -> 0..MaxTimings] :
         LET bigramTimings == TimingMap(BigramsTimed, n)
         IN  /\ typeTimings' = [typeTimings EXCEPT !.bigrams = bigramTimings]
             /\ returned' = calculateBigramStats(words, wordIndex,
                               completedInputs, currentInput, bigramTimings)
    /\ pc' = "bigramStats"
    /\ UNCHANGED <<count, timingHistory, result, shuffleI, targets, words,
                   wordIndex, completedInputs, currentInput, wordMistypes,
                   isGameComplete, controlVars>>

NextStats == CalcLetterStats \/ CalcBigramStats

SpecStats == InitStats /\ [][NextStats]_vars

---------------------------------------------------------------------------
(* Calls of calculateWordStats and of the overall statistics. *)

\* the words the word statistics are called on (a list may repeat a word)
\* and the word the history alone knows
StatWords == SubSeq(dictionary, 1, 2)
OtherWord == <<"c">>

WordTimingOptions == << <<200>>, <<200, 301>> >>
HistoryTimingOptions == << <<>>, <<400, 501>> >>

\* a call of the word statistics: a word list, the session's word timings
\* and mistypes, a history and the isGameComplete flag
WordStatsCall ==
    /\ \E n \in 0..MaxWords : \E idx \in [1..n -> 1..Len(StatWords)] :
           words = [k \in 1..n |-> StatWords[idx[k]]]
    /\ wordIndex = 0
    /\ completedInputs = <<>>
    /\ currentInput = <<>>
    /\ \E wt \in Objects(StatWords, WordTimingOptions) :
           typeTimings = [NoTimings EXCEPT !.words = wt]
    /\ wordMistypes \in Objects(<<StatWords[1]>>, <<2>>)
    /\ isGameComplete \in BOOLEAN
    /\ \E hw \in Objects(<<StatWords[1], OtherWord>>, HistoryTimingOptions) :
       \E wm \in Objects(<<StatWords[1]>>, <<1>>) :
           timingHistory = [EmptyHistory EXCEPT !.historicalWords = hw,
                                                !.wordMistypes = wm]

\* the sessions the letter and bigram statistics are called on: one or two
\* of the words aa and ab, each input as long as its word, but the last
\* input of a session in play, which lacks its last character
PatternWords == << <<"a", "a">>, <<"a", "b">> >>

FullInputs(word) == [1..Len(word) -> Alphabet]

\* a call of the overall letter or bigram statistics: a session, its
\* timings and a history
PatternStatsCall ==
    /\ \E n \in 0..Min(MaxWords, Len(PatternWords)) :
       \E idx \in [1..n -> 1..Len(PatternWords)] :
       \E typed \in [1..n -> FullInputs(PatternWords[1])] :
           /\ \A i, j \in 1..n : idx[i] = idx[j] => i = j
           /\ words = [k \in 1..n |-> PatternWords[idx[k]]]
           /\ isGameComplete \in (IF n = 0 THEN {FALSE} ELSE BOOLEAN)
           /\ wordIndex = IF n = 0 THEN 0 ELSE n - 1
           /\ completedInputs = IF isGameComplete THEN typed
                                ELSE SubSeq(typed, 1, n - 1)
           /\ currentInput = IF n = 0 THEN <<>>
                             ELSE IF isGameComplete THEN typed[n]
                             ELSE SubSeq(typed[n], 1, Len(typed[n]) - 1)
    /\ \E t \in {0, MaxTimings} :
           typeTimings =
               [letters |-> TimingMap(LettersTimed, [i \in 1..2 |-> t]),
                bigrams |-> TimingMap(BigramsTimed, [i \in 1..2 |-> t]),
                words |-> <<>>]
    /\ wordMistypes = <<>>
    /\ \E c \in [1..2 -> 0..Len(HistoryTimingOptions)] :
           timingHistory =
               [EmptyHistory EXCEPT
                   !.historicalLetters =
                       MakeObj(<<"a", "c">>, c, HistoryTimingOptions),
                   !.historicalBigrams =
                       MakeObj(<< <<"a", "a">>, <<"b", "a">> >>, c,
                               HistoryTimingOptions)]

InitOverall ==
    /\ pc = "session"
    /\ count = 0
    /\ result = <<>>
    /\ shuffleI = 0
    /\ targets = NoTargets
    /\ NoKeys
    /\ returned = <<>>
    /\ WordStatsCall \/ PatternStatsCall

CalcWordStats ==
    /\ pc = "session"
    /\ returned' = calculateWordStats(words, typeTimings.words, wordMistypes)
    /\ pc' = "wordStats"
    /\ UNCHANGED <<count, timingHistory, result, shuffleI, targets,
                   sessionVars, controlVars>>

CalcOverallWordStats ==
    /\ pc = "session"
    /\ returned' = calculateOverallWordStats(words, typeTimings.words,
                       wordMistypes, timingHistory, isGameComplete)
    /\ pc' = "overallWordStats"
    /\ UNCHANGED <<count, timingHistory, result, shuffleI, targets,
                   sessionVars, controlVars>>

CalcOverallLetterStats ==
    /\ pc = "session"
    /\ returned' = calculateOverallLetterStats(words, wordIndex,
                       completedInputs, currentInput, typeTimings.letters,
                       timingHistory)
    /\ pc' = "overallLetterStats"
    /\ UNCHANGED <<count, timingHistory, result, shuffleI, targets,
                   sessionVars, controlVars>>

CalcOverallBigramStats ==
    /\ pc = "session"
    /\ returned' = calculateOverallBigramStats(words, wordIndex,
                       completedInputs, currentInput, typeTimings.letters,
                       timingHistory)
    /\ pc' = "overallBigramStats"
    /\ UNCHANGED <<count, timingHistory, result, shuffleI, targets,
                   sessionVars, controlVars>>

NextOverall ==
    \/ CalcWordStats
    \/ CalcOverallWordStats
    \/ CalcOverallLetterStats
    \/ CalcOverallBigramStats

SpecOverall == InitOverall /\ [][NextOverall]_vars

---------------------------------------------------------------------------
(* The session controller: mount, keys, Try Again and Delete Data.         *)
(* generateWeightedWords runs as in SpecGen, from pc = "call" to           *)
(* pc = "done", inside the handler that calls it.                          *)

\* key events of a run
MaxEvents == 5

\* words per session: 20 in the source, with a dictionary of thousands of
\* words; here half of the dictionary
WORDS_COUNT == Len(dictionary) \div 2

\* (mutant: the performance records survive the deletion)
keptPerformance(h) ==
    [EmptyHistory EXCEPT !.historicalPerformance = h.historicalPerformance]

\* the emptyHistory of handleDeleteData
emptyHistory(h) == EmptyHistory

\* what resetGame and handleDeleteData both reset
SessionCleared ==
    /\ currentInput' = <<>>
    /\ wordIndex' = 0
    /\ startTime' = Null
    /\ typeTimings' = NoTimings
    /\ letterMistakes' = <<>>
    /\ totalKeystrokes' = 0
    /\ totalMistakes' = 0
    /\ isGameComplete' = FALSE
    /\ lastKeyPressTime' = Null
    /\ completedInputs' = <<>>
    /\ performanceData' = <<>>

\* the call generateWeightedWords(WORDS_COUNT, ...) of a handler
WordsRequested ==
    /\ pc' = "call"
    /\ count' = WORDS_COUNT
    /\ result' = <<>>
    /\ shuffleI' = 0

\* what the mount effect finds in localStorage: nothing, or the history of
\* an earlier session in which the word "b" was timed
StoredHistories ==
    {EmptyHistory,
     [EmptyHistory EXCEPT
         !.letters = <<[key |-> "b", val |-> Num(300)]>>,
         !.words = <<[key |-> <<"b">>, val |-> Num(400)]>>,
         !.historicalLetters = <<[key |-> "b", val |-> <<300>>]>>,
         !.historicalWords = <<[key |-> <<"b">>, val |-> <<400>>]>>,
         !.historicalPerformance = <<[wpm |-> Num(40), accuracy |-> 90]>>]}

\* first mount
InitSession ==
    /\ pc = "call"
    /\ count = WORDS_COUNT
    /\ timingHistory \in StoredHistories
    /\ result = <<>>
    /\ shuffleI = 0
    /\ targets = NoTargets
    /\ NoSession

\* setWords(generateWeightedWords(...))
SetWords ==
    /\ pc = "done"
    /\ words' = result
    /\ pc' = "idle"
    /\ UNCHANGED <<count, timingHistory, result, shuffleI, targets,
                   wordIndex, completedInputs, currentInput, typeTimings,
                   wordMistypes, isGameComplete, controlVars, returned>>

\* a printable character or a space; when the key completes the session
\* the effect merges it into the history, and it throws when the session
\* has no performance point
KeyPress ==
    /\ pc = "idle"
    /\ now < MaxEvents
    /\ \E key \in Alphabet \cup {" "} :
         LET a == handleGlobalKeyPress(key)
         IN  IF ~a.accepted THEN UNCHANGED vars
             ELSE /\ startTime' = a.startTime
                  /\ typeTimings' = a.typeTimings
                  /\ letterMistakes' = a.letterMistakes
                  /\ totalMistakes' = a.totalMistakes
                  /\ totalKeystrokes' = a.totalKeystrokes
                  /\ lastKeyPressTime' = a.lastKeyPressTime
                  /\ completedInputs' = a.completedInputs
                  /\ wordIndex' = a.wordIndex
                  /\ currentInput' = a.currentInput
                  /\ isGameComplete' = a.isGameComplete
                  /\ wordStartTimes' = a.wordStartTimes
                  /\ wordMistypes' = a.wordMistypes
                  /\ performanceData' = a.performanceData
                  /\ now' = now + 1
                  /\ IF ~a.isGameComplete
                     THEN UNCHANGED <<pc, timingHistory>>
                     ELSE IF Len(a.performanceData) = 0
                     THEN pc' = "crashed" /\ UNCHANGED timingHistory
                     ELSE /\ timingHistory' =
                                 MergedHistory(timingHistory, words,
                                     a.wordIndex, a.completedInputs,
                                     a.currentInput, a.typeTimings,
                                     a.wordMistypes, a.performanceData)
                          /\ UNCHANGED pc
                  /\ UNCHANGED <<count, result, shuffleI, targets, words,
                                 strictMode, event, returned>>

Backspace ==
    /\ pc = "idle"
    /\ ~isGameComplete
    /\ now < MaxEvents
    /\ LET newInput == SubSeq(currentInput, 1, Len(currentInput) - 1)
       IN  /\ currentInput' = newInput
           /\ performanceData' =
                  updatePerformanceData(performanceData, newInput,
                                        Time(now + 1))
    /\ now' = now + 1
    /\ UNCHANGED <<pc, count, timingHistory, result, shuffleI, targets,
                   words, wordIndex, completedInputs, typeTimings,
                   wordMistypes, isGameComplete, strictMode, startTime,
                   lastKeyPressTime, wordStartTimes, letterMistakes,
                   totalKeystrokes, totalMistakes, event, returned>>

\* onToggleStrictMode, on the game screen
ToggleStrictMode ==
    /\ pc = "idle"
    /\ ~isGameComplete
    /\ strictMode' = ~strictMode
    /\ UNCHANGED <<pc, count, timingHistory, result, shuffleI, targets,
                   sessionVars, startTime, lastKeyPressTime, wordStartTimes,
                   letterMistakes, totalKeystrokes, totalMistakes,
                   performanceData, now, event, returned>>

\* Try Again, on the results screen
resetGame ==
    /\ pc = "idle"
    /\ isGameComplete
    /\ WordsRequested
    /\ SessionCleared
    /\ wordStartTimes' = <<>>
    /\ wordMistypes' = <<>>
    /\ event' = "reset"
    /\ UNCHANGED <<timingHistory, targets, words, strictMode, now, returned>>

\* Delete Data, on the results screen, confirmed or not
handleDeleteData ==
    /\ pc = "idle"
    /\ isGameComplete
    /\ \E confirmed \in BOOLEAN :
         IF ~confirmed THEN UNCHANGED vars
         ELSE /\ timingHistory' = emptyHistory(timingHistory)
              /\ WordsRequested
              /\ SessionCleared
              /\ event' = "delete"
              /\ UNCHANGED <<targets, words, wordStartTimes, wordMistypes,
                             strictMode, now, returned>>

NextSession ==
    \/ GenEnter
    \/ GenFirstDraw
    \/ GenFirstReturn
    \/ GenFill
    \/ GenFillExit
    \/ GenShuffle
    \/ GenReturn
    \/ SetWords
    \/ KeyPress
    \/ Backspace
    \/ ToggleStrictMode
    \/ resetGame
    \/ handleDeleteData

SpecSession == InitSession /\ [][NextSession]_vars

---------------------------------------------------------------------------
(* The mount effect alone, over what localStorage may hold: nothing, a     *)
(* saved history, text that JSON.parse rejects, or JSON of another shape.  *)
(* event tells the last two apart from a mount that found none of them.    *)

\* parsed objects that are not a TimingHistory: no property of it, or the
\* performance list alone, or that list and one word's timings
MismatchedHistories ==
    {[version |-> 0],
     [historicalPerformance |-> <<[wpm |-> Num(40), accuracy |-> 90]>>],
     [historicalPerformance |-> <<[wpm |-> Num(40), accuracy |-> 90]>>,
      historicalWords |-> <<[key |-> <<"b">>, val |-> <<400>>]>>]}

InitStartup ==
    /\ count = WORDS_COUNT
    /\ result = <<>>
    /\ shuffleI = 0
    /\ targets = NoTargets
    /\ words = <<>>
    /\ wordIndex = 0
    /\ completedInputs = <<>>
    /\ currentInput = <<>>
    /\ typeTimings = NoTimings
    /\ wordMistypes = <<>>
    /\ isGameComplete = FALSE
    /\ strictMode = TRUE
    /\ startTime = Null
    /\ lastKeyPressTime = Null
    /\ wordStartTimes = <<>>
    /\ letterMistakes = <<>>
    /\ totalKeystrokes = 0
    /\ totalMistakes = 0
    /\ performanceData = <<>>
    /\ now = 0
    /\ returned = <<>>
    /\ \/ /\ event = "mount"
          /\ timingHistory \in StoredHistories
          /\ pc = "call"
       \/ /\ event = "unparsable"
          /\ timingHistory = EmptyHistory
          /\ pc = "crashed"
       \/ /\ event = "mismatched"
          /\ timingHistory \in MismatchedHistories
          /\ pc = "call"

NextStartup ==
    \/ GenEnter
    \/ GenFirstDraw
    \/ GenFirstReturn
    \/ GenFill
    \/ GenFillExit
    \/ GenShuffle
    \/ GenReturn
    \/ SetWords

SpecStartup == InitStartup /\ [][NextStartup]_vars

---------------------------------------------------------------------------
(* One session over a given word list: handleKeyPress reads the words      *)
(* state, here any list of one or two dictionary words.                    *)

AnyWordLists ==
    {<<dictionary[i]>> : i \in 1..Len(dictionary)}
        \cup {<<dictionary[p[1]], dictionary[p[2]]>> :
                  p \in {q \in (1..Len(dictionary)) \X (1..Len(dictionary)) :
                            q[1] # q[2]}}

InitWords ==
    /\ pc = "idle"
    /\ count = WORDS_COUNT
    /\ timingHistory = EmptyHistory
    /\ result = <<>>
    /\ shuffleI = 0
    /\ targets = NoTargets
    /\ words \in AnyWordLists
    /\ wordIndex = 0
    /\ completedInputs = <<>>
    /\ currentInput = <<>>
    /\ typeTimings = NoTimings
    /\ wordMistypes = <<>>
    /\ isGameComplete = FALSE
    /\ NoKeys
    /\ returned = <<>>

NextWords ==
    \/ KeyPress
    \/ Backspace
    \/ ToggleStrictMode

SpecWords == InitWords /\ [][NextWords]_vars

---------------------------------------------------------------------------
(* Claims about generateWeightedWords. *)

\* C1: with at least one completed session and count within the dictionary
\* size, the returned list has exactly count words, all dictionary words,
\* none twice.
ExactCountWithHistory ==
    (pc = "done" /\ ~NoHistory(timingHistory) /\ count <= Len(dictionary))
        => /\ Len(result) = count
           /\ Range(result) \subseteq Range(dictionary)
           /\ NoDuplicates(result)

\* C2: with no completed session and count within the dictionary size, the
\* returned list has exactly count pairwise-distinct dictionary words; for
\* count equal to the dictionary size it is a permutation of the dictionary.
FirstTimeExactCount ==
    (pc = "done" /\ NoHistory(timingHistory) /\ count <= Len(dictionary))
        => /\ Len(result) = count
           /\ Range(result) \subseteq Range(dictionary)
           /\ NoDuplicates(result)
           /\ (count = Len(dictionary) => Range(result) = Range(dictionary))

FirstTimeWholeDictionary ==
    /\ pc = "done"
    /\ NoHistory(timingHistory)
    /\ count = Len(dictionary)
    /\ result # dictionary
    /\ Len(result) = Len(dictionary)

\* C3: with at least one completed session, the returned list holds every
\* targeted word that is in the dictionary, wherever the shuffle put it.
TargetedWordsReturned ==
    (pc = "done" /\ ~NoHistory(timingHistory))
        => \A w \in Range(getTargetedPatterns(timingHistory).words) :
               Includes(dictionary, w) => Includes(result, w)

TargetedWordsShuffled ==
    /\ pc = "done"
    /\ ~NoHistory(timingHistory)
    /\ LET tw == getTargetedPatterns(timingHistory).words
       IN  /\ \E w \in Range(tw) : ~Includes(dictionary, w)
           /\ Cardinality(Range(tw) \cap Range(dictionary)) = 2
           /\ count = 3
           /\ Includes(dictionary, result[1])
           /\ ~Includes(tw, result[1])

\* C4: the call never loops forever, whatever count and history are: while
\* a loop is still short of count, some dictionary word is not yet in the
\* result, so an iteration (a random draw, or the sorted list) can add one.
\* Where this fails every further iteration leaves result as it is and the
\* loop condition true.
LoopCanAdvance ==
    (pc \in {"firstLoop", "fillLoop"} /\ Len(result) < count)
        => \E w \in Range(dictionary) : ~Includes(result, w)

---------------------------------------------------------------------------
(* Claims about getTargetedPatterns. *)

\* the keys of an object that hold at least one timing
TimedKeys(historical) ==
    {k \in Keys(historical) : Len(Get(historical, k)) >= 1}

\* list names only timed keys of historical, min(5, number of them), none
\* twice, slowest first, and no timed key left out is slower than a listed
\* one
SlowestTimedKeys(list, historical) ==
    LET timed == TimedKeys(historical)
        mean(k) == Mean(Get(historical, k))
    IN  /\ Range(list) \subseteq timed
        /\ Len(list) = Min(TopN, Cardinality(timed))
        /\ NoDuplicates(list)
        /\ \A i, j \in 1..Len(list) :
               i < j => ~NumGreater(mean(list[j]), mean(list[i]))
        /\ \A k \in timed \ Range(list) : \A l \in Range(list) :
               ~NumGreater(mean(k), mean(l))

\* C5: the targeted letters (and bigrams) are the min(5, n) slowest of the
\* n keys with at least one timing, slowest first; no keys, empty list.
TargetsAreSlowestTimedKeys ==
    pc = "done"
        => /\ SlowestTimedKeys(targets.letters, timingHistory.historicalLetters)
           /\ SlowestTimedKeys(targets.bigrams, timingHistory.historicalBigrams)

\* word v ranks strictly above word w: more mistypes, or as many and slower
RanksAbove(v, w, h) ==
    LET mis(x) == GetOrZero(h.wordMistypes, x)
        avg(x) == IF Len(Get(h.historicalWords, x)) > 0
                  THEN Mean(Get(h.historicalWords, x)) ELSE Num(0)
    IN  \/ mis(v) > mis(w)
        \/ mis(v) = mis(w) /\ NumGreater(avg(v), avg(w))

\* C6: the targeted words are the first min(5, n) of the n keys of
\* historicalWords by mistypes descending, then mean time descending; a
\* word with mistypes comes before every word without.
TargetedWordsAreTopRanked ==
    pc = "done"
        => LET h == timingHistory
               list == targets.words
               mis(x) == GetOrZero(h.wordMistypes, x)
           IN  /\ Range(list) \subseteq Keys(h.historicalWords)
               /\ Len(list) = Min(TopN, Len(h.historicalWords))
               /\ NoDuplicates(list)
               /\ \A i, j \in 1..Len(list) :
                      i < j => ~RanksAbove(list[j], list[i], h)
               /\ \A k \in Keys(h.historicalWords) \ Range(list) :
                      \A l \in Range(list) : ~RanksAbove(k, l, h)
               /\ \A i, j \in 1..Len(list) :
                      (mis(list[i]) > 0 /\ mis(list[j]) = 0) => i < j
               /\ \A k \in Keys(h.historicalWords) \ Range(list) :
                      mis(k) > 0 => \A l \in Range(list) : mis(l) > 0

\* more than five words, of which one with mistypes is listed before one
\* without, words with equal mistypes are told apart by time, and one
\* without mistypes is left out
TargetedWordsCutAtFive ==
    /\ pc = "done"
    /\ Len(timingHistory.historicalWords) > TopN
    /\ Len(targets.words) = TopN
    /\ LET h == timingHistory
           mis(x) == GetOrZero(h.wordMistypes, x)
       IN  /\ mis(targets.words[1]) = 2
           /\ mis(targets.words[4]) = 1
           /\ mis(targets.words[5]) = 1
           /\ \E k \in Keys(h.historicalWords) \ Range(targets.words) :
                  mis(k) = 0

---------------------------------------------------------------------------
(* Claims about calculateLetterStats and calculateBigramStats. *)

\* the positions (word k, character j) where the typed character is the
\* target character c
CorrectPositions(c) ==
    {p \in (1..Len(InputsTyped)) \X (1..3) :
        /\ p[2] <= Len(InputsTyped[p[1]])
        /\ p[2] <= Len(words[p[1]])
        /\ words[p[1]][p[2]] = c
        /\ InputsTyped[p[1]][p[2]] = c}

\* C7: a letter's occurrences is the number of positions where the typed
\* character is that target character, and its averageTime the mean of as
\* many latencies taken in order from the front of letterTimings[c].
OccurrencesCountCorrectPositions ==
    pc = "letterStats"
        => \A i \in 1..Len(returned) :
               LET c == returned[i].letter
                   n == Cardinality(CorrectPositions(c))
                   recorded == GetOrEmpty(typeTimings.letters, c)
               IN  /\ returned[i].occurrences = n
                   /\ Len(recorded) >= n
                          => returned[i].averageTime
                                 = Mean(SubSeq(recorded, 1, n))

\* C8: every letter listed was typed correctly at some position of the
\* session, and no letter is listed twice.
OnlyLettersTypedCorrectly ==
    pc = "letterStats"
        => /\ \A i \in 1..Len(returned) :
                  CorrectPositions(returned[i].letter) # {}
           /\ \A i, j \in 1..Len(returned) :
                  returned[i].letter = returned[j].letter => i = j

\* a target letter was typed over, each time with the wrong character,
\* while another letter was typed correctly and is listed
WrongLetterLeftOut ==
    /\ pc = "letterStats"
    /\ Len(returned) > 0
    /\ \E c \in Alphabet :
         /\ CorrectPositions(c) = {}
         /\ \E k \in 1..Len(InputsTyped) : \E j \in 1..Len(InputsTyped[k]) :
                words[k][j] = c
         /\ \A i \in 1..Len(returned) : returned[i].letter # c

\* how often bigram bg was typed correctly in word k
CorrectPairs(bg, k) ==
    Cardinality({j \in 1..2 :
        /\ j + 1 <= Len(words[k])
        /\ j + 1 <= Len(InputsTyped[k])
        /\ SubSeq(words[k], j, j + 1) = bg
        /\ SubSeq(InputsTyped[k], j, j + 1) = bg})

\* the statistics of bigram bg when its Nth correct occurrence in the
\* session takes the Nth latency of timings: the total of the per-word
\* averages, the words counted and the latencies taken
PositionalBigramTotals(bg, timings) ==
    LET rec[k \in 0..Len(InputsTyped)] ==
            IF k = 0 THEN [totalTime |-> Num(0), count |-> 0, taken |-> 0]
            ELSE LET before == rec[k - 1]
                     n == CorrectPairs(bg, k)
                 IN  IF n = 0 THEN before
                     ELSE [totalTime |->
                               NumAdd(before.totalTime,
                                      IF before.taken + n <= Len(timings)
                                      THEN Mean(SubSeq(timings,
                                                       before.taken + 1,
                                                       before.taken + n))
                                      ELSE NaN),
                           count |-> before.count + 1,
                           taken |-> before.taken + n]
    IN  rec[Len(InputsTyped)]

\* C9: a bigram's averageTime is the mean, over the words where it was
\* typed correctly, of the word's average of the latencies its occurrences
\* take in order from bigramTimings[bigram]; occurrences is the number of
\* those words; the list is sorted by averageTime descending.  (Read for
\* calls where bigramTimings[bigram] has a latency for every occurrence,
\* and with the average rounded as the code rounds it.)
BigramAverageOfWordAverages ==
    pc = "bigramStats"
        => /\ \A i \in 1..Len(returned) :
                  LET bg == returned[i].bigram
                      timings == GetOrEmpty(typeTimings.bigrams, bg)
                      claimed == PositionalBigramTotals(bg, timings)
                  IN  Len(timings) >= claimed.taken
                          => /\ returned[i].occurrences = claimed.count
                             /\ returned[i].averageTime
                                    = MathRound(NumOver(claimed.totalTime,
                                                        claimed.count))
           /\ (\A i \in 1..Len(returned) : ~returned[i].averageTime.nan)
                  => \A i, j \in 1..Len(returned) :
                         i < j => ~NumGreater(returned[j].averageTime,
                                              returned[i].averageTime)

\* C10: every averageTime returned by the letter and the bigram statistics
\* is a number, never NaN.
AveragesAreNumbers ==
    pc \in {"letterStats", "bigramStats"}
        => \A i \in 1..Len(returned) : ~returned[i].averageTime.nan

---------------------------------------------------------------------------
(* Claims about calculateWordStats and the overall statistics. *)

\* avg is the integer nearest to the mean of times (0 for no times)
NearestToMean(avg, times) ==
    /\ ~avg.nan
    /\ avg.d = 1
    /\ IF Len(times) = 0 THEN avg.n = 0
       ELSE 2 * Abs(avg.n * Len(times) - SumSeq(times)) <= Len(times)

\* the list is ordered by mistypes descending, then averageTime descending
OrderedByMistypesThenTime(list) ==
    \A i, j \in 1..Len(list) :
        i < j => \/ list[i].mistypes > list[j].mistypes
                 \/ /\ list[i].mistypes = list[j].mistypes
                    /\ ~NumGreater(list[j].averageTime, list[i].averageTime)

\* C11: calculateWordStats has one entry per element of the word list (a
\* repeated word has as many entries), each with the count of the word's
\* timings, their mean rounded to the nearest integer (0 for none) and the
\* word's mistypes or 0; ordered by mistypes, then averageTime, descending.
WordStatsCoverWordList ==
    pc = "wordStats"
        => /\ Len(returned) = Len(words)
           /\ \A w \in Range(words) :
                  Cardinality({i \in 1..Len(returned) : returned[i].word = w})
                      = Cardinality({i \in 1..Len(words) : words[i] = w})
           /\ \A i \in 1..Len(returned) :
                  LET times == GetOrEmpty(typeTimings.words, returned[i].word)
                  IN  /\ returned[i].word \in Range(words)
                      /\ returned[i].occurrences = Len(times)
                      /\ NearestToMean(returned[i].averageTime, times)
                      /\ returned[i].mistypes
                             = GetOrZero(wordMistypes, returned[i].word)
           /\ OrderedByMistypesThenTime(returned)

\* a word listed twice, with a mean of 250.5 that is returned as 251, and
\* a word listed once with no timing
RepeatedWordRounded ==
    /\ pc = "wordStats"
    /\ \E i, j \in 1..Len(words) : i # j /\ words[i] = words[j]
    /\ \E i \in 1..Len(returned) :
           /\ returned[i].averageTime = Num(251)
           /\ returned[i].occurrences = 2
           /\ returned[i].mistypes = 2

\* C12: for a completed session, a word with historical timings gets the
\* historical mean and count (the session's timings of the word are not
\* counted again), a word of the session alone keeps its session values.
HistoricalWordsNotCountedTwice ==
    (pc = "overallWordStats" /\ isGameComplete)
        => \A i \in 1..Len(returned) :
               LET w == returned[i].word
                   times == GetOrEmpty(timingHistory.historicalWords, w)
                   own == GetOrEmpty(typeTimings.words, w)
               IN  IF Len(times) > 0
                   THEN /\ returned[i].occurrences = Len(times)
                        /\ NearestToMean(returned[i].averageTime, times)
                   ELSE w \in Range(words)
                            => /\ returned[i].occurrences = Len(own)
                               /\ NearestToMean(returned[i].averageTime, own)

\* letters with at least one historical timing
TimedLetters == TimedKeys(timingHistory.historicalLetters)

\* the session's own letter statistics
SessionLetterStats ==
    calculateLetterStats(words, wordIndex, completedInputs, currentInput,
                         typeTimings.letters)

\* C13: calculateOverallLetterStats has exactly one entry per letter that
\* has historical timings or a session entry; a letter with historical
\* timings has their mean and count, a letter of the session alone its
\* session entry; sorted by averageTime descending.
OverallLettersAreUnion ==
    pc = "overallLetterStats"
        => /\ {returned[i].letter : i \in 1..Len(returned)}
                  = TimedLetters
                    \cup {SessionLetterStats[i].letter :
                              i \in 1..Len(SessionLetterStats)}
           /\ \A i, j \in 1..Len(returned) :
                  returned[i].letter = returned[j].letter => i = j
           /\ \A i \in 1..Len(returned) :
                  LET times == GetOrEmpty(timingHistory.historicalLetters,
                                          returned[i].letter)
                  IN  IF returned[i].letter \in TimedLetters
                      THEN /\ returned[i].averageTime = Mean(times)
                           /\ returned[i].occurrences = Len(times)
                      ELSE \E k \in 1..Len(SessionLetterStats) :
                               returned[i] = SessionLetterStats[k]
           /\ \A i, j \in 1..Len(returned) :
                  i < j => ~NumGreater(returned[j].averageTime,
                                       returned[i].averageTime)

\* the history times a and c, the session a and b: a is listed with the
\* history's values, which are not the session's, b with the session's
HistoryOverridesSessionLetter ==
    /\ pc = "overallLetterStats"
    /\ TimedLetters = {"a", "c"}
    /\ Len(returned) = 3
    /\ \E k \in 1..Len(SessionLetterStats) :
           /\ SessionLetterStats[k].letter = "a"
           /\ SessionLetterStats[k].occurrences > 0
           /\ \A i \in 1..Len(returned) : returned[i] # SessionLetterStats[k]
    /\ \E k \in 1..Len(SessionLetterStats) :
           /\ SessionLetterStats[k].letter = "b"
           /\ \E i \in 1..Len(returned) : returned[i] = SessionLetterStats[k]

\* the session's own bigram statistics
SessionBigramStats ==
    calculateBigramStats(words, wordIndex, completedInputs, currentInput,
                         typeTimings.bigrams)

\* C14: a bigram typed correctly and timed in the session, and absent from
\* historicalBigrams, is listed by calculateOverallBigramStats with its
\* session value; a bigram with historical timings is listed with their
\* rounded mean and count.
SessionBigramsListed ==
    pc = "overallBigramStats"
        => /\ \A k \in 1..Len(SessionBigramStats) :
                  ~Has(timingHistory.historicalBigrams,
                       SessionBigramStats[k].bigram)
                      => \E i \in 1..Len(returned) :
                             returned[i] = SessionBigramStats[k]
           /\ \A b \in TimedKeys(timingHistory.historicalBigrams) :
                  \E i \in 1..Len(returned) :
                      LET times == Get(timingHistory.historicalBigrams, b)
                      IN  /\ returned[i].bigram = b
                          /\ NearestToMean(returned[i].averageTime, times)
                          /\ returned[i].occurrences = Len(times)

\* C15: while the session is not complete, each overall statistic returns
\* what its session counterpart returns, whatever the history holds.
OverallIsSessionUntilComplete ==
    ~isGameComplete
        => /\ pc = "overallWordStats"
                  => returned = calculateWordStats(words, typeTimings.words,
                                                   wordMistypes)
           /\ pc = "overallLetterStats" => returned = SessionLetterStats
           /\ pc = "overallBigramStats" => returned = SessionBigramStats

---------------------------------------------------------------------------
(* Claims about the session controller. *)

\* the step is a confirmed Delete Data
DeleteDataStep == pc = "idle" /\ pc' = "call" /\ event' = "delete"

\* the step completes the session
CompletionStep == ~isGameComplete /\ isGameComplete'

\* C16: the history is changed by a session only by the step that
\* completes it, and that step appends exactly one record, the {wpm,
\* accuracy} of the session's last performance point, at the end of
\* historicalPerformance; no other key event, and no Try Again, changes
\* the history (Delete Data empties it).
HistoryChangesAtCompletionOnly ==
    [][/\ timingHistory' # timingHistory => DeleteDataStep \/ CompletionStep
       /\ CompletionStep
              => timingHistory'.historicalPerformance
                     = Append(timingHistory.historicalPerformance,
                              [wpm |-> performanceData'
                                           [Len(performanceData')].wpm,
                               accuracy |-> performanceData'
                                           [Len(performanceData')].accuracy])
      ]_vars

\* a session of several performance points is complete and the history
\* holds two records, the earlier session's and this one's
TwoSessionsCompleted ==
    /\ isGameComplete
    /\ pc = "idle"
    /\ Len(timingHistory.historicalPerformance) = 2
    /\ Len(performanceData) > 1

\* C17: after a confirmed Delete Data the history is the empty history,
\* the session is not complete, at word 0 with nothing typed, and the
\* word list is generated as for a first-time user.
DeleteDataResetsAll ==
    event = "delete"
        => /\ ~isGameComplete => timingHistory = EmptyHistory
           /\ pc \in {"call", "firstLoop", "done", "idle"}
           /\ startTime = Null
                  => /\ ~isGameComplete
                     /\ wordIndex = 0
                     /\ completedInputs = <<>>
                     /\ currentInput = <<>>
                     /\ typeTimings = NoTimings
           /\ pc = "idle"
                  => /\ Len(words) = WORDS_COUNT
                     /\ NoDuplicates(words)
                     /\ Range(words) \subseteq Range(dictionary)

\* the data of a completed session was deleted and the next session's
\* words are there, nothing typed yet
DeletedAfterASession ==
    /\ event = "delete"
    /\ pc = "idle"
    /\ startTime = Null
    /\ now > 0

\* the step types character c where the target character is c
TypesCorrectly(c) ==
    /\ currentInput' = Append(currentInput, c)
    /\ wordIndex < Len(words)
    /\ Len(currentInput') <= Len(words[wordIndex + 1])
    /\ words[wordIndex + 1][Len(currentInput')] = c

\* C18: a latency is added to letterTimings[c] only by a keystroke that
\* types c where c is the target, and to bigramTimings[p] only when both
\* characters of p were typed correctly; a mistyped key changes no timing
\* sequence.
TimingsOnlyForCorrectKeys ==
    [][/\ \A c \in Alphabet :
              Len(GetOrEmpty(typeTimings'.letters, c))
                  > Len(GetOrEmpty(typeTimings.letters, c))
                  => TypesCorrectly(c)
       /\ \A c1, c2 \in Alphabet :
              Len(GetOrEmpty(typeTimings'.bigrams, <<c1, c2>>))
                  > Len(GetOrEmpty(typeTimings.bigrams, <<c1, c2>>))
                  => /\ TypesCorrectly(c2)
                     /\ Len(currentInput) > 0
                     /\ currentInput[Len(currentInput)] = c1
                     /\ words[wordIndex + 1][Len(currentInput)] = c1
      ]_vars

\* sequence a is the beginning of sequence b
IsPrefix(a, b) == Len(a) <= Len(b) /\ SubSeq(b, 1, Len(a)) = a

\* every key of old is a key of new, with old's sequence as a prefix
GrownFrom(old, new) ==
    \A k \in Keys(old) : Has(new, k) /\ IsPrefix(Get(old, k), Get(new, k))

BatchesAdded(old, new, session) ==
    /\ \A k \in Keys(old) \cup Keys(session) :
           GetOrEmpty(new, k) = GetOrEmpty(old, k) \o GetOrEmpty(session, k)
    /\ Keys(new) \subseteq Keys(old) \cup Keys(session)

StrictModeLeavesOnlyTypedWords ==
    [][(strictMode /\ Len(completedInputs') = Len(completedInputs) + 1)
           => completedInputs'[Len(completedInputs')] = words[wordIndex + 1]
      ]_vars

\* C26: with a non-empty word list, wordIndex is an index of words,
\* completedInputs has wordIndex entries while the session is in progress
\* and one per word once it is complete, and currentInput is no longer
\* than the word in play.
SessionIndicesInRange ==
    words # <<>>
        => /\ wordIndex \in 0..(Len(words) - 1)
           /\ ~isGameComplete => Len(completedInputs) = wordIndex
           /\ isGameComplete => Len(completedInputs) = Len(words)
           /\ Len(currentInput) <= Len(words[wordIndex + 1])

\* a word that is not the last is filled, no space typed yet
WordFilledBeforeSpace ==
    /\ pc = "idle"
    /\ ~isGameComplete
    /\ wordIndex < Len(words) - 1
    /\ Len(currentInput) = Len(words[wordIndex + 1])
    /\ now < MaxEvents

\* C27: a session begun by Delete Data starts with nothing recorded
\* before the deletion: no per-word mistype count and no word start time
\* of the earlier session is left for the next merge to read.
NothingStaleAfterDelete ==
    (event = "delete" /\ startTime = Null)
        => wordMistypes = <<>> /\ wordStartTimes = <<>>

\* the cases in which the controller rejects key
RejectCase(key) ==
    \/ isGameComplete
    \/ key = " " /\ currentInput = <<>>
    \/ key = " " /\ strictMode /\ currentInput # words[wordIndex + 1]
    \/ key # " " /\ Len(currentInput) = Len(words[wordIndex + 1])

\* C28: a key the controller rejects (any key once the session is
\* complete, a space on an empty input, a space in strict mode on an input
\* that differs from the word, a character on a filled word) returns
\* before any setter: the session state and the history stay as they are.
RejectedKeysChangeNothing ==
    (pc = "idle" /\ words # <<>>)
        => \A key \in Alphabet \cup {" "} :
               RejectCase(key) => ~handleGlobalKeyPress(key).accepted

\* strict mode, a non-empty input that differs from the word: the space is
\* rejected
StrictSpaceOnWrongInput ==
    /\ pc = "idle"
    /\ ~isGameComplete
    /\ strictMode
    /\ currentInput # <<>>
    /\ currentInput # words[wordIndex + 1]
    /\ totalMistakes > 0
    /\ now < MaxEvents

BadStorageTreatedAsAbsent ==
    event \in {"unparsable", "mismatched"}
        => /\ pc # "crashed"
           /\ timingHistory = EmptyHistory
           /\ pc \notin {"fillLoop", "shuffle"}

---------------------------------------------------------------------------
(* Further claims about generateWeightedWords. *)

\* how many times w is in seq
Occurrences(seq, w) == Cardinality({i \in 1..Len(seq) : seq[i] = w})

\* the list before the shuffle, when the dictionary has n words to give:
\* the targeted words, then the heaviest words not yet in the list
Selected(h, n) ==
    LET sorted == SortedWords(safeTimingHistory(h))
        fill[k \in 0..n] ==
            IF k = 0
            THEN IncludeTargeted(
                     getTargetedPatterns(safeTimingHistory(h)).words)
            ELSE IF Len(fill[k - 1]) < n /\ FindNext(sorted, fill[k - 1]) # 0
                 THEN Append(fill[k - 1],
                             sorted[FindNext(sorted, fill[k - 1])].word)
                 ELSE fill[k - 1]
    IN  fill[n]

\* C23: every step of the final shuffle permutes the result: each word is
\* in it as many times after the step as before, for every draw of j.
ShufflePermutes ==
    [][(pc = "shuffle" /\ pc' = "shuffle")
           => /\ Len(result') = Len(result)
              /\ \A w \in Range(result) \cup Range(result') :
                     Occurrences(result', w) = Occurrences(result, w)
      ]_vars

\* the shuffle is at its last step and has moved a word
ShuffleMovedAWord ==
    /\ pc = "shuffle"
    /\ shuffleI = 1
    /\ Len(result) >= 3
    /\ result # Selected(timingHistory, count)

\* the weight the sentence of C24 gives a word
DescribedWeight(word, h) ==
    LET times == GetOrEmpty(h.historicalWords, word)
        mistypeCount == IF Has(h.words, word)
                        THEN GetOrZero(h.wordMistypes, word) ELSE 0
        base == IF Len(times) > 0
                THEN NumAdd(Num(1), NumOver(Mean(times), 1000))
                ELSE Num(1)
        multiplied == IF mistypeCount # 0
                      THEN NumTimes(base, 1 + mistypeCount) ELSE base
        letterSum[k \in 0..Len(word)] ==
            IF k = 0 THEN multiplied
            ELSE IF GetOrEmpty(h.historicalLetters, word[k]) # <<>>
                 THEN NumAdd(letterSum[k - 1],
                             NumOver(Mean(Get(h.historicalLetters, word[k])),
                                     2000))
                 ELSE letterSum[k - 1]
        bigramSum[k \in 0..(Len(word) - 1)] ==
            IF k = 0 THEN letterSum[Len(word)]
            ELSE IF GetOrEmpty(h.historicalBigrams, SubSeq(word, k, k + 1))
                        # <<>>
                 THEN NumAdd(bigramSum[k - 1],
                             NumOver(Mean(Get(h.historicalBigrams,
                                              SubSeq(word, k, k + 1))),
                                     4000))
                 ELSE bigramSum[k - 1]
        whole == bigramSum[Len(word) - 1]
    IN  IF mistypeCount > 0 THEN NumTimes(whole, 2) ELSE whole

\* word has no history of any kind in h
NoHistoryOf(word, h) ==
    /\ ~Has(h.historicalWords, word)
    /\ ~(Has(h.words, word) /\ Has(h.wordMistypes, word))
    /\ \A k \in 1..Len(word) : ~Has(h.historicalLetters, word[k])
    /\ \A k \in 1..(Len(word) - 1) :
           ~Has(h.historicalBigrams, SubSeq(word, k, k + 1))

\* C24: with a completed session in the history, the weight of every
\* dictionary word in the sorted list is 1, plus its historical average
\* / 1000, times (1 + mistypes) if it was attempted in the last session
\* with mistypes, plus average / 2000 per timed letter, plus average / 4000
\* per timed adjacent pair, doubled when it has mistypes; and exactly 1
\* for a word with no history.
WeightIsAsDescribed ==
    (pc = "fillLoop" /\ count <= Len(dictionary))
        => LET h == safeTimingHistory(timingHistory)
               sorted == SortedWords(h)
           IN  \A i \in 1..Len(sorted) :
                   /\ sorted[i].weight = DescribedWeight(sorted[i].word, h)
                   /\ NoHistoryOf(sorted[i].word, h)
                          => sorted[i].weight = Num(1)

\* the fill loop runs over a history that gives a word every term of the
\* weight, and another word none
EveryTermWeighed ==
    /\ pc = "fillLoop"
    /\ Len(result) < count
    /\ LET h == safeTimingHistory(timingHistory)
       IN  /\ \E w \in Range(dictionary) :
                  /\ Has(h.historicalWords, w)
                  /\ CurrentMistypes(w, h) > 0
                  /\ Has(h.historicalLetters, w[1])
           /\ \E w \in Range(dictionary) :
                  /\ Len(w) > 1
                  /\ Has(h.historicalBigrams, SubSeq(w, 1, 2))
           /\ \E w \in Range(dictionary) : NoHistoryOf(w, h)

\* C25: with a completed session in the history and count within the
\* dictionary, no dictionary word left out of the returned list is
\* heavier than a word of the list that is not a targeted word.
FillTakesHeaviest ==
    (pc = "done" /\ ~NoHistory(timingHistory) /\ count <= Len(dictionary))
        => LET h == safeTimingHistory(timingHistory)
               targeted == Range(getTargetedPatterns(h).words)
           IN  \A w \in Range(result) \ targeted :
                   \A v \in Range(dictionary) \ Range(result) :
                       ~NumGreater(WordWeight(v, h), WordWeight(w, h))

\* a returned list with a filled-in word, heavier than a word left out
\* that comes before it in the dictionary
HeavierWordFilledIn ==
    /\ pc = "done"
    /\ ~NoHistory(timingHistory)
    /\ count <= Len(dictionary)
    /\ LET h == safeTimingHistory(timingHistory)
           targeted == Range(getTargetedPatterns(h).words)
       IN  \E i, j \in 1..Len(dictionary) :
               /\ i < j
               /\ ~Includes(result, dictionary[i])
               /\ Includes(result, dictionary[j])
               /\ dictionary[j] \notin targeted
               /\ NumGreater(WordWeight(dictionary[j], h),
                             WordWeight(dictionary[i], h))

\* C30: with a completed session in the history and count within the
\* dictionary, the set of returned words is a function of the history
\* and count alone, whatever the draws were.
SelectionIgnoresDraws ==
    (pc = "done" /\ ~NoHistory(timingHistory) /\ count <= Len(dictionary))
        => Range(result) = Range(Selected(timingHistory, count))

\* the returned list is the selection in reverse order
SelectionReturnedReversed ==
    /\ pc = "done"
    /\ ~NoHistory(timingHistory)
    /\ count = 3
    /\ Len(result) = 3
    /\ LET sel == Selected(timingHistory, count)
       IN  /\ Len(sel) = 3
           /\ \A k \in 1..3 : result[k] = sel[4 - k]

===========================================================================
